---------------------------- MODULE Spec2Model ----------------------------
(***************************************************************************)
(* A model of the retrieval-augmented answer core of AI-PDF-Analyser:      *)
(* the chat POST handler (src/app/api/chat/route.ts), its in-memory vector *)
(* store, the Voyage embeddings client (src/lib/embeddings.ts) and the     *)
(* document store (lib/documentStore).                                     *)
(*                                                                         *)
(* Strings are sequences of one-character strings.  Offsets are 0-based as *)
(* in the source.  A highlight offset is stored as TWICE its value,        *)
(* because the source computes it with the float division contextSize / 2  *)
(* and a phrase of odd length gives a half-integral offset.                *)
(***************************************************************************)
EXTENDS Integers, Sequences, FiniteSets, TLC

(***************************************************************************)
(* Characters and the String methods the handler uses                      *)
(***************************************************************************)

UpperLetters == <<"A","B","C","D","E","F","G","H","I","J","K","L","M",
                  "N","O","P","Q","R","S","T","U","V","W","X","Y","Z">>
LowerLetters == <<"a","b","c","d","e","f","g","h","i","j","k","l","m",
                  "n","o","p","q","r","s","t","u","v","w","x","y","z">>
DigitChars == <<"0","1","2","3","4","5","6","7","8","9">>

\* U+0130, LATIN CAPITAL LETTER I WITH DOT ABOVE, and U+0307, COMBINING DOT ABOVE
IDOT == "U+0130"
DOT  == "U+0307"

WhitespaceChars == {" ", "\n", "\t"}
Digits == {DigitChars[d] : d \in 1..10}
IsWhitespace(c) == c \in WhitespaceChars
IsDigit(c) == c \in Digits
DigitValue(c) == (CHOOSE d \in 1..10 : DigitChars[d] = c) - 1

\* String.prototype.toLowerCase on one UTF-16 code unit: the Unicode default
\* case conversion, which maps U+0130 to the TWO code units U+0069 U+0307.
LowerChar(c) ==
    IF \E i \in 1..26 : UpperLetters[i] = c
    THEN <<LowerLetters[CHOOSE i \in 1..26 : UpperLetters[i] = c]>>
    ELSE IF c = IDOT THEN <<"i", DOT>>
    ELSE <<c>>

RECURSIVE toLowerCase(_)
toLowerCase(s) ==
    IF Len(s) = 0 THEN <<>>
    ELSE IF Len(s) = 1 THEN LowerChar(s[1])
    ELSE LET h == Len(s) \div 2
         IN  toLowerCase(SubSeq(s, 1, h)) \o toLowerCase(SubSeq(s, h + 1, Len(s)))

\* a sequence given by a function constructor, evaluated once into an array
Array(f) == f \o <<>>

Min(a, b) == IF a <= b THEN a ELSE b
Max(a, b) == IF a >= b THEN a ELSE b
SetMin(S) == CHOOSE m \in S : \A x \in S : m <= x

\* needle occurs in hay at 0-based offset i
OccursAt(hay, needle, i) ==
    /\ i + Len(needle) <= Len(hay)
    /\ \A j \in 1..Len(needle) : hay[i + j] = needle[j]

\* String.prototype.indexOf: the first 0-based offset of needle, or -1
indexOf(hay, needle) ==
    LET hits == {i \in 0..(Len(hay) - Len(needle)) : OccursAt(hay, needle, i)}
    IN  IF hits = {} THEN -1 ELSE SetMin(hits)

\* String.prototype.substring(start, end): both clamped to [0, length] and
\* swapped when start > end
substring(s, start, end) ==
    LET a  == Min(Max(start, 0), Len(s))
        b  == Min(Max(end, 0), Len(s))
        lo == Min(a, b)
        hi == Max(a, b)
    IN  SubSeq(s, lo + 1, hi)

\* String.prototype.trim
trim(s) ==
    LET keep == {i \in 1..Len(s) : ~IsWhitespace(s[i])}
    IN  IF keep = {} THEN <<>>
        ELSE SubSeq(s, SetMin(keep), CHOOSE m \in keep : \A x \in keep : x <= m)

\* String.prototype.split(/\s+/): the pieces between maximal whitespace runs;
\* a leading or trailing run leaves an empty piece, and "" gives [""]
RECURSIVE splitWhitespace(_)
splitWhitespace(s) ==
    LET ws == {i \in 1..Len(s) : IsWhitespace(s[i])}
    IN  IF ws = {} THEN <<s>>
        ELSE LET first == SetMin(ws)
                 after == {i \in first..Len(s) : ~IsWhitespace(s[i])}
                 next  == IF after = {} THEN Len(s) + 1 ELSE SetMin(after)
             IN  <<SubSeq(s, 1, first - 1)>> \o splitWhitespace(SubSeq(s, next, Len(s)))

\* Array.prototype.join(' ')
RECURSIVE joinSpace(_)
joinSpace(words) ==
    IF Len(words) = 0 THEN <<>>
    ELSE IF Len(words) = 1 THEN words[1]
    ELSE words[1] \o <<" ">> \o joinSpace(Tail(words))

\* the concatenation of the sequences parts[lo..hi]
RECURSIVE Flatten(_, _, _)
Flatten(parts, lo, hi) ==
    IF lo > hi THEN <<>>
    ELSE IF lo = hi THEN parts[lo]
    ELSE LET mid == (lo + hi) \div 2
         IN  Flatten(parts, lo, mid) \o Flatten(parts, mid + 1, hi)

\* Array.prototype.filter: the elements of s at the indices in keep, in order
SelectSeqIdx(s, keep, from) ==
    Flatten(Array([i \in 1..Len(s) |->
                      IF i >= from /\ i \in keep THEN <<s[i]>> ELSE <<>>]),
            1, Len(s))

Repeat(c, n) == Array([i \in 1..n |-> c])

(***************************************************************************)
(* Sample texts: page texts, questions and generator answers               *)
(***************************************************************************)

\* null, for a string-valued field
NULL == "null"

PageAnnual ==
    <<"A", "n", "n", "u", "a", "l", " ", "r", "e", "p", "o", "r", "t", ".">>
PageRevenue ==
    <<"R", "e", "v", "e", "n", "u", "e", " ", "g", "r", "e", "w", " ", "1", "2", "%", " ", "i", "n", " ", "Q", "3", ".">>
PageCosts ==
    <<" ", "C", "o", "s", "t", "s", " ", "f", "e", "l", "l", ".", " ">>
PhraseInPage ==
    <<"T", "o", "t", "a", "l", " ", "R", "e", "v", "e", "n", "u", "e", " ", "G", "r", "o", "w", "t", "h", " ", "d", "u", "r", "i", "n", "g", " ", "t", "h", "i", "r", "d", " ", "q", "u", "a", "r", "t", "e", "r">>
MsgScenarioA ==
    <<"W", "h", "a", "t", " ", "h", "a", "p", "p", "e", "n", "e", "d", " ", "t", "o", " ", "r", "e", "v", "e", "n", "u", "e", " ", "i", "n", " ", "Q", "3", "?">>
MsgPhrase ==
    <<"E", "x", "p", "l", "a", "i", "n", " ", "t", "h", "e", " ", "t", "o", "t", "a", "l", " ", "r", "e", "v", "e", "n", "u", "e", " ", "g", "r", "o", "w", "t", "h", " ", "d", "u", "r", "i", "n", "g", " ", "t", "h", "i", "r", "d", " ", "q", "u", "a", "r", "t", "e", "r">>
MsgShort ==
    <<"W", "h", "y", " ", "s", "o", "?">>
AnsScenarioA ==
    <<"R", "e", "v", "e", "n", "u", "e", " ", "g", "r", "e", "w", " ", "1", "2", "%", ".", " ", "[", "P", "A", "G", "E", " ", "2", "]">>
AnsNoMarker ==
    <<"I", " ", "d", "o", " ", "n", "o", "t", " ", "k", "n", "o", "w", ".">>
AnsMixedCase ==
    <<"s", "e", "e", " ", "p", "a", "g", "e", " ", "1", ",", " ", "P", "a", "g", "e", " ", " ", "0", "3", " ", "a", "n", "d", " ", "p", "A", "g", "E", " ", "2">>
AnsAbsentPage ==
    <<"I", "t", " ", "i", "s", " ", "o", "n", " ", "P", "A", "G", "E", " ", "4", "0", "0", ".">>
AnsUnparseable ==
    <<"P", "A", "G", "E", "2", ",", " ", "p", "a", "g", "e", "s", " ", "3", ",", " ", "[", "P", "A", "G", "E", "]">>

\* lengths of the filler runs in the long sample pages
FillBefore == 70
FillAfter == 250
IdotRun == 110
BigDocPages == 150

\* a page longer than the default highlight, with the phrase in its middle
PageLong ==
    Repeat("x", FillBefore) \o <<" ">> \o PhraseInPage \o <<" ">> \o Repeat("y", FillAfter)

\* a page in capital Turkish letters: a run of U+0130 before the phrase
PageTurkish == Repeat(IDOT, IdotRun) \o PhraseInPage

PageBlank == <<" ", "\n", " ">>

BigPage(i) ==
    IF i % 3 = 1 THEN <<"a">> ELSE IF i % 3 = 2 THEN <<"a", "b", "c">> ELSE <<"a", "b">>

\* a question of three words and ten characters, which occurs in PageLong
MsgShortPhrase ==
    <<"h", " ", "d", "u", "r", "i", "n", "g", " ", "t">>

Messages == {<<>>, MsgScenarioA, MsgPhrase, MsgShort, MsgShortPhrase}

Answers == {AnsScenarioA, AnsNoMarker, AnsMixedCase, AnsAbsentPage, AnsUnparseable}

(***************************************************************************)
(* The document store (lib/documentStore)                                  *)
(***************************************************************************)

ProcessedDocument(id, name, pageContents) ==
    [id |-> id, name |-> name, pageContents |-> pageContents,
     pageCount |-> Len(pageContents)]

DocReport  == ProcessedDocument("d1", "report.pdf",
                                <<PageAnnual, PageRevenue, PageCosts>>)
DocLong    == ProcessedDocument("d2", "long.pdf",
                                <<<<>>, PageLong, PageTurkish, PageBlank>>)
DocBlank   == ProcessedDocument("d3", "blank.pdf", <<<<>>, PageBlank>>)
DocBig     == ProcessedDocument("d4", "big.pdf",
                                Array([i \in 1..BigDocPages |-> BigPage(i)]))

SampleDocuments == {DocReport, DocLong, DocBlank, DocBig}

\* the ids a request may name: the stored ones, an unknown one and a missing one
DocumentIds == {"d1", "d2", "d3", "d4", "d9", ""}

VARIABLES
    globalDocuments,    \* documentStore: id -> ProcessedDocument
    serverStorage,      \* the server runtime's sessionStorage global
    pc,                 \* the handler's position
    body,               \* the parsed request body
    document,           \* POST: const document
    docs,               \* POST: const docs: Document[]
    documentEmbeddings, \* POST: let documentEmbeddings: number[][]
    queryEmbedding,     \* similaritySearch: let queryEmbedding
    searchK,            \* similaritySearch: the parameter k
    similarities,       \* similaritySearch: the sorted, sliced similarities
    relevantDocs,       \* POST: const relevantDocs
    responseText,       \* POST: const responseText
    mentionedPages,     \* POST: const mentionedPages
    references,         \* POST: const references
    response,           \* the NextResponse the handler returned
    vendorCalls,        \* the embedding and generation vendor calls issued
    previousRun,        \* an earlier citation extraction: its inputs and references
    isLoading,          \* ChatInterface: isLoading, the request is in flight
    contextError,       \* ChatInterface: contextError
    lastMessage,        \* ChatInterface: the message handleSubmit appended last
    messages,           \* ChatInterface: messages
    inFlight,           \* ChatInterface: the fetches of /api/chat not yet settled
    uploadResponse,     \* the upload route: the NextResponse its POST returned last
    layoutDocumentId,   \* AppLayout: documentId
    layoutDocument,     \* AppLayout: document
    layoutError,        \* AppLayout: error
    activeReference,    \* AppLayout: activeReference
    fetches,            \* AppLayout: the ids whose document fetch is in flight
    currentPage,        \* DocumentPreview: currentPage
    highlightRange      \* DocumentPreview: highlightRange

searchVars == <<queryEmbedding, searchK, similarities, relevantDocs>>

clientVars == <<isLoading, contextError, lastMessage, messages, inFlight>>

\* the state outside the chat route and the chat panel
layoutVars == <<layoutDocumentId, layoutDocument, layoutError, activeReference, fetches>>

previewVars == <<currentPage, highlightRange>>

frontVars == <<uploadResponse, layoutVars, previewVars>>

\* the state of one chat request, the document store apart
chatVars == <<serverStorage, pc, body, document, docs, documentEmbeddings,
              searchVars, responseText, mentionedPages, references, response, vendorCalls,
              previousRun, clientVars>>

vars == <<globalDocuments, chatVars, frontVars>>

\* no earlier citation extraction
NoRun == [null |-> TRUE]

\* the null a lookup returns, and the undefined an array read past its end returns
NullDocument == [null |-> TRUE]
UndefinedDocument == [undefined |-> TRUE]

\* a lookup that answers an unknown id with a document without pages, the
\* variant the not-found property has to tell from getDocument
getDocumentOrEmpty(id) ==
    IF id = "" THEN NullDocument
    ELSE IF id \notin DOMAIN globalDocuments
    THEN [id |-> id, name |-> <<>>, pageContents |-> <<>>]
    ELSE IF Len(globalDocuments[id].pageContents) = 0 THEN NullDocument
    ELSE globalDocuments[id]

\* getDocument(id)
getDocument(id) ==
    IF id = "" THEN NullDocument
    ELSE IF id \notin DOMAIN globalDocuments THEN NullDocument
    ELSE IF Len(globalDocuments[id].pageContents) = 0 THEN NullDocument
    ELSE globalDocuments[id]

\* a store that keeps every document under the id it came with, the variant
\* the one-entry-per-name property has to tell from storeDocument
storeDocumentUnderOwnId(documents, doc) ==
    IF doc.id = "" THEN documents
    ELSE IF Len(doc.pageContents) = 0 THEN documents
    ELSE [k \in DOMAIN documents \cup {doc.id} |->
             IF k = doc.id THEN doc ELSE documents[k]]

\* storeDocument(document) on the store `documents`: the store it leaves.  A
\* document without id or without pages is not stored; a document that has
\* the name of a stored one takes that one's id and replaces it.  (The stored
\* names are distinct here, so that the first match of find is the only one.)
storeDocument(documents, doc) ==
    IF doc.id = "" THEN documents
    ELSE IF Len(doc.pageContents) = 0 THEN documents
    ELSE LET sameName == {id \in DOMAIN documents : documents[id].name = doc.name}
             id       == IF sameName # {} THEN CHOOSE e \in sameName : TRUE ELSE doc.id
         IN  [k \in DOMAIN documents \cup {id} |->
                 IF k = id THEN [doc EXCEPT !.id = id] ELSE documents[k]]

\* removeDocument(id) on the store `documents`: the store it leaves
removeDocument(documents, id) ==
    IF id = "" \/ id \notin DOMAIN documents THEN documents
    ELSE [k \in DOMAIN documents \ {id} |-> documents[k]]

\* the documents an upload may store while a request is in flight: a new
\* version of report.pdf, a document without id and a document without pages
DocReportRevised == ProcessedDocument("u1", DocReport.name, <<PageCosts, PageAnnual>>)
UploadedDocuments ==
    { DocReportRevised,
      ProcessedDocument("", DocReport.name, <<PageCosts>>),
      ProcessedDocument("u2", DocReport.name, <<>>) }

\* the ids a deletion may name
RemovedIds == {"d1", "d9"}

(***************************************************************************)
(* Chunking: RecursiveCharacterTextSplitter({chunkSize, chunkOverlap})     *)
(***************************************************************************)

chunkSize == 1000
chunkOverlap == 100

\* textSplitter.createDocuments([pageContent], [{pageNumber}]) for a page
\* shorter than chunkSize: the splits are merged back into one chunk, which
\* is trimmed, and an empty chunk is dropped.  The sample pages are all
\* shorter than chunkSize.
createDocuments(pageContent, pageNumber) ==
    IF Len(trim(pageContent)) = 0 THEN <<>>
    ELSE <<[pageContent |-> trim(pageContent),
            metadata |-> [pageNumber |-> pageNumber]]>>

\* a loop that numbers the pages it keeps, so that a skipped page shifts the
\* numbers of the later ones: the variant the page-number property has to
\* tell from splitPages
splitPagesRenumbered(pageContents, from) ==
    Flatten(Array([j \in 1..Len(pageContents) |->
                      LET i == j - 1
                          kept == Cardinality({h \in 1..j : Len(pageContents[h]) > 0})
                      IN  IF i < from \/ Len(pageContents[i + 1]) = 0 THEN <<>>
                          ELSE createDocuments(pageContents[i + 1], kept)]),
            1, Len(pageContents))

\* the loop over document.pageContents: an empty page is skipped, i + 1 is
\* the page number
splitPages(pageContents, from) ==
    Flatten(Array([j \in 1..Len(pageContents) |->
                      LET i == j - 1
                      IN  IF i < from \/ Len(pageContents[i + 1]) = 0 THEN <<>>
                          ELSE createDocuments(pageContents[i + 1], i + 1)]),
            1, Len(pageContents))

(***************************************************************************)
(* Embedding providers (src/lib/embeddings.ts, OpenAIEmbeddings)           *)
(***************************************************************************)

\* The embedding vectors of the model.  Every vector has an integral norm, so
\* that the float arithmetic of cosineSimilarity is exact on them.
VecTable == << <<1, 0>>, <<0, 1>>, <<3, 4>>, <<4, 3>>, <<-1, 0>> >>

\* the vector the embedding model assigns to a text
EmbedModel(text) == VecTable[(Len(text) % Len(VecTable)) + 1]

QueryVectors == { <<1, 0>>, <<3, 4>> }

VoyageMaxBatch == 128

\* The "data" array of a Voyage response to `texts`: each item carries the
\* index of the text it embeds.  The provider decides the order and the number
\* of the items.
VoyageData(texts, shape) ==
    LET n == Len(texts)
        item(i) == [index |-> i, embedding |-> EmbedModel(texts[i + 1])]
    IN  CASE shape = "inOrder"  -> Array([j \in 1..n |-> item(j - 1)])
          [] shape = "reversed" -> Array([j \in 1..n |-> item(n - j)])
          [] shape = "short"    -> Array([j \in 1..(n - 1) |-> item(j - 1)])
          [] shape = "long"     -> Array([j \in 1..(n + 1) |->
                                      IF j <= n THEN item(j - 1)
                                      ELSE [index |-> n, embedding |-> VecTable[1]]])

ReplyShapes == {"inOrder", "reversed", "short", "long"}

\* what the vendor may answer to an embedding request for `texts`
VoyageReplies(texts) ==
    {[ok |-> FALSE, data |-> <<>>]}
        \cup {[ok |-> TRUE, data |-> VoyageData(texts, s)] : s \in ReplyShapes}

VoyageQueryReplies ==
    {[ok |-> FALSE, data |-> <<>>], [ok |-> TRUE, data |-> <<>>]}
        \cup {[ok |-> TRUE, data |-> <<[index |-> 0, embedding |-> v]>>] : v \in QueryVectors}

\* VoyageEmbeddings.embedTexts: the batch check, the fetch and the status check.
\* `calls` counts the requests sent to the vendor.
embedTexts(texts, reply) ==
    IF Len(texts) > VoyageMaxBatch
    THEN [error |-> "Maximum of 128 texts can be embedded at once",
          data |-> <<>>, calls |-> 0]
    ELSE IF ~reply.ok
    THEN [error |-> "Voyage AI API error", data |-> <<>>, calls |-> 1]
    ELSE [error |-> NULL, data |-> reply.data, calls |-> 1]

\* VoyageEmbeddings.embedDocuments: response.data.map(item => item.embedding)
embedDocuments(texts, reply) ==
    LET r == embedTexts(texts, reply)
    IN  [error |-> r.error, calls |-> r.calls,
         vectors |-> Array([j \in 1..Len(r.data) |-> r.data[j].embedding])]

\* VoyageEmbeddings.embedQuery: response.data[0].embedding
embedQuery(text, reply) ==
    LET r == embedTexts(<<text>>, reply)
    IN  IF r.error # NULL
        THEN [error |-> r.error, calls |-> r.calls, vector |-> <<>>]
        ELSE IF Len(r.data) = 0
        THEN [error |-> "Cannot read properties of undefined (reading 'embedding')",
              calls |-> r.calls, vector |-> <<>>]
        ELSE [error |-> NULL, calls |-> r.calls, vector |-> r.data[1].embedding]

\* the error.message of a failed OpenAI API call, of the embeddings endpoint
\* or of the chat endpoint: the rate limit of the key is hit
ErrRateLimit ==
    "429 Rate limit exceeded"

\* OpenAIEmbeddings.embedDocuments (library): one vector per text, in order,
\* or the vendor's error
openAIEmbedDocuments(texts, reply) ==
    IF ~reply.ok
    THEN [error |-> ErrRateLimit, calls |-> 1, vectors |-> <<>>]
    ELSE [error |-> NULL, calls |-> 1,
          vectors |-> Array([j \in 1..Len(texts) |-> EmbedModel(texts[j])])]

OpenAIReplies == {[ok |-> FALSE], [ok |-> TRUE]}

(***************************************************************************)
(* SimpleVectorStore                                                       *)
(***************************************************************************)

RECURSIVE dotProduct(_, _)
dotProduct(vecA, vecB) ==
    IF Len(vecA) = 0 THEN 0
    ELSE vecA[1] * vecB[1] + dotProduct(Tail(vecA), Tail(vecB))

\* Math.sqrt on a perfect square
sqrt(n) == CHOOSE r \in 0..n : r * r = n

\* SimpleVectorStore.cosineSimilarity, as the exact fraction num/den (den > 0)
cosineSimilarity(vecA, vecB) ==
    IF Len(vecA) # Len(vecB) THEN [throws |-> TRUE, num |-> 0, den |-> 1]
    ELSE LET normA == sqrt(dotProduct(vecA, vecA))
             normB == sqrt(dotProduct(vecB, vecB))
         IN  IF normA = 0 \/ normB = 0 THEN [throws |-> FALSE, num |-> 0, den |-> 1]
             ELSE [throws |-> FALSE, num |-> dotProduct(vecA, vecB), den |-> normA * normB]

\* the comparator (a, b) => a.similarity - b.similarity, the ascending order
\* the search-ordering property has to tell from compareFn
compareFnAscending(a, b) ==
    LET d == a.similarity.num * b.similarity.den - b.similarity.num * a.similarity.den
    IN  IF d < 0 THEN -1 ELSE IF d > 0 THEN 1 ELSE 0

\* the comparator (a, b) => b.similarity - a.similarity: its sign
compareFn(a, b) ==
    LET d == b.similarity.num * a.similarity.den - a.similarity.num * b.similarity.den
    IN  IF d < 0 THEN -1 ELSE IF d > 0 THEN 1 ELSE 0

\* Array.prototype.sort(compareFn) is stable: an element comes after the
\* elements the comparator orders before it and after the earlier elements the
\* comparator ties with it
sort(s) ==
    LET n     == Len(s)
        ranks == Array([i \in 1..n |->
                    Cardinality({j \in 1..n :
                        \/ compareFn(s[j], s[i]) < 0
                        \/ compareFn(s[j], s[i]) = 0 /\ j < i}) + 1])
    IN  Array([r \in 1..n |-> s[CHOOSE i \in 1..n : ranks[i] = r]])

\* Array.prototype.slice(0, k)
slice(s, k) == SubSeq(s, 1, Min(k, Len(s)))

\* similaritySearch after the query embedding arrived: the similarities of
\* all embeddings, sorted by similarity descending, the first k of them
rankSimilarities(embeddings, queryVector, k) ==
    slice(sort(Array([i \in 1..Len(embeddings) |->
                        [index |-> i - 1,
                         similarity |-> cosineSimilarity(queryVector, embeddings[i])]])),
          k)

\* .map(item => this.documents[item.index])
topDocuments(documents, sims) ==
    Array([j \in 1..Len(sims) |->
              IF sims[j].index < Len(documents) THEN documents[sims[j].index + 1]
              ELSE UndefinedDocument])

\* similaritySearch(query, k) once the query embedding is known
similaritySearch(documents, embeddings, queryVector, k) ==
    LET sims == rankSimilarities(embeddings, queryVector, k)
    IN  [similarities |-> sims, documents |-> topDocuments(documents, sims)]

SearchK == 100
DefaultK == 4

(***************************************************************************)
(* Citation extraction (POST, after the generator answered)                *)
(***************************************************************************)

\* the end of the run of characters of class that starts at offset p
RunEnd(text, p, class) ==
    SetMin({q \in p..Len(text) : q = Len(text) \/ text[q + 1] \notin class})

RECURSIVE parseInt(_)
parseInt(digits) ==
    IF Len(digits) = 0 THEN 0
    ELSE 10 * parseInt(SubSeq(digits, 1, Len(digits) - 1)) + DigitValue(digits[Len(digits)])

\* the five regular expressions of pagePatterns
pagePatterns ==
    << [word |-> <<"P", "A", "G", "E">>, ignoreCase |-> TRUE,  bracketed |-> FALSE],
       [word |-> <<"p", "a", "g", "e">>, ignoreCase |-> TRUE,  bracketed |-> FALSE],
       [word |-> <<"P", "A", "G", "E">>, ignoreCase |-> TRUE,  bracketed |-> TRUE],
       [word |-> <<"p", "a", "g", "e">>, ignoreCase |-> TRUE,  bracketed |-> TRUE],
       [word |-> <<"P", "a", "g", "e">>, ignoreCase |-> FALSE, bracketed |-> FALSE] >>

\* the pattern matches at offset i of text: word, \s+, (\d+), with the
\* brackets when bracketed.  The result is the captured digits, or <<>>.
patternCapture(text, i, pattern) ==
    LET w       == IF pattern.bracketed THEN i + 1 ELSE i
        wordOk  == /\ w + 4 <= Len(text)
                   /\ \A j \in 1..4 :
                         IF pattern.ignoreCase
                         THEN LowerChar(text[w + j]) = LowerChar(pattern.word[j])
                         ELSE text[w + j] = pattern.word[j]
        openOk  == ~pattern.bracketed \/ (i < Len(text) /\ text[i + 1] = "[")
        wsEnd   == RunEnd(text, w + 4, WhitespaceChars)
        digEnd  == RunEnd(text, wsEnd, Digits)
        closeOk == ~pattern.bracketed \/ (digEnd < Len(text) /\ text[digEnd + 1] = "]")
    IN  IF openOk /\ wordOk /\ wsEnd > w + 4 /\ digEnd > wsEnd /\ closeOk
        THEN SubSeq(text, wsEnd + 1, digEnd)
        ELSE <<>>

\* a scan with the two bracketed patterns only, the variant the page-mention
\* property has to tell from mentionedPagesOf
mentionedPagesBracketed(text) ==
    {parseInt(patternCapture(text, i, pagePatterns[p])) :
        <<i, p>> \in {ip \in (0..(Len(text) - 1)) \X {3, 4} :
                         patternCapture(text, ip[1], pagePatterns[ip[2]]) # <<>>}}

\* a scan whose patterns keep their lastIndex from an earlier scan that found
\* a page, so that it starts at the end of the text: the variant the
\* determinism property has to tell from mentionedPagesOf
mentionedPagesSticky(text) ==
    {parseInt(patternCapture(text, i, pagePatterns[p])) :
        <<i, p>> \in {ip \in ((IF mentionedPages = {} THEN 0 ELSE Len(text))..(Len(text) - 1))
                                \X (1..Len(pagePatterns)) :
                         patternCapture(text, ip[1], pagePatterns[ip[2]]) # <<>>}}

\* the while (pattern.exec(responseText)) loops: the Set mentionedPages
mentionedPagesOf(text) ==
    {parseInt(patternCapture(text, i, pagePatterns[p])) :
        <<i, p>> \in {ip \in (0..(Len(text) - 1)) \X (1..Len(pagePatterns)) :
                         patternCapture(text, ip[1], pagePatterns[ip[2]]) # <<>>}}

MinKeywordLength == 3
StopWords ==
    { <<"w","h","a","t">>, <<"w","h","e","r","e">>, <<"w","h","e","n">>, <<"h","o","w">>,
      <<"t","h","e">>, <<"t","h","i","s">>, <<"t","h","a","t">>, <<"w","i","t","h">> }

\* const queryWords
queryWordsOf(message) ==
    LET words == splitWhitespace(toLowerCase(message))
    IN  SelectSeqIdx(words,
                     {i \in 1..Len(words) :
                         Len(words[i]) > MinKeywordLength /\ words[i] \notin StopWords},
                     1)

MinPhraseWords == 3
MaxPhraseWords == 6
MinPhraseLength == 10
MinMessageLength == 10

\* the phrases of `size` consecutive words, longer than MinPhraseLength
phrasesOfSize(words, size) ==
    LET all == Array([i \in 1..(Len(words) - size + 1) |->
                         joinSpace(SubSeq(words, i, i + size - 1))])
    IN  SelectSeqIdx(all, {i \in 1..Len(all) : Len(all[i]) > MinPhraseLength}, 1)

RECURSIVE phrasesFrom(_, _)
phrasesFrom(words, size) ==
    IF size < MinPhraseWords THEN <<>>
    ELSE phrasesOfSize(words, size) \o phrasesFrom(words, size - 1)

\* phrases with the shortest first, the variant the rule-priority property
\* has to tell from significantPhrasesOf
significantPhrasesShortestFirst(message) ==
    IF Len(message) > MinMessageLength
    THEN LET words == splitWhitespace(message)
             most  == Min(MaxPhraseWords, Len(words))
         IN  Flatten(Array([j \in 1..Max(0, most - MinPhraseWords + 1) |->
                               phrasesOfSize(words, MinPhraseWords + j - 1)]),
                     1, Max(0, most - MinPhraseWords + 1))
    ELSE <<>>

\* const significantPhrases: longest phrases first
significantPhrasesOf(message) ==
    IF Len(message) > MinMessageLength
    THEN LET words == splitWhitespace(message)
         IN  phrasesFrom(words, Min(MaxPhraseWords, Len(words)))
    ELSE <<>>

\* the first needle, in order, that occurs in hay: its offset and its length
RECURSIVE firstMatch(_, _, _, _)
firstMatch(hay, needles, lower, i) ==
    IF i > Len(needles) THEN [index |-> -1, length |-> 0]
    ELSE LET idx == indexOf(hay, IF lower THEN toLowerCase(needles[i]) ELSE needles[i])
         IN  IF idx >= 0 THEN [index |-> idx, length |-> Len(needles[i])]
             ELSE firstMatch(hay, needles, lower, i + 1)

ExcerptLength == 150
DefaultHighlight == 300
MinContextSize == 100
ContextFactor == 3
KeywordContext == 150

\* The highlight offsets below are twice the source's values: contextSize / 2
\* is a float division.

\* the range around a phrase match at `index`
phraseRange(content, index, phraseLength) ==
    LET contextSize == Max(MinContextSize, phraseLength * ContextFactor)
    IN  [start |-> Max(0, 2 * index - contextSize),
         end   |-> Min(2 * Len(content), 2 * index + 2 * phraseLength + contextSize)]

\* the range around a keyword match at `index`
keywordRange(content, index, wordLength) ==
    [start |-> 2 * Max(0, index - KeywordContext),
     end   |-> 2 * Min(Len(content), index + wordLength + KeywordContext)]

defaultRange(content) ==
    [start |-> 0, end |-> 2 * Min(Len(content), DefaultHighlight)]

\* the callback of relevantDocs.filter(...).map(...): one reference of a chunk
referenceOf(doc, message) ==
    LET content == doc.pageContent
        lowered == toLowerCase(content)
        phrase  == firstMatch(lowered, significantPhrasesOf(message), TRUE, 1)
        word    == IF phrase.index >= 0 THEN phrase
                   ELSE firstMatch(lowered, queryWordsOf(message), FALSE, 1)
        range   == IF phrase.index >= 0
                   THEN phraseRange(content, phrase.index, phrase.length)
                   ELSE IF word.index >= 0
                   THEN keywordRange(content, word.index, word.length)
                   ELSE defaultRange(content)
        rule    == IF phrase.index >= 0 THEN "phrase"
                   ELSE IF word.index >= 0 THEN "keyword" ELSE "default"
    IN  [pageNumber |-> doc.metadata.pageNumber,
         text |-> IF rule = "default" THEN substring(content, 0, ExcerptLength)
                  ELSE substring(content, range.start \div 2, range.end \div 2),
         fullText |-> content,
         highlightRange |-> range]

TopReferences == 3

\* the callback of relevantDocs.slice(0, 3).map(...)
topReferenceOf(doc) ==
    [pageNumber |-> doc.metadata.pageNumber,
     text |-> substring(doc.pageContent, 0, ExcerptLength),
     fullText |-> doc.pageContent,
     highlightRange |-> defaultRange(doc.pageContent)]

\* relevantDocs.filter(doc => mentionedPages.has(doc.metadata.pageNumber))
mentionedDocs(relevant, mentioned) ==
    SelectSeqIdx(relevant,
                 {i \in 1..Len(relevant) : relevant[i].metadata.pageNumber \in mentioned},
                 1)

\* references whose fallback takes every retrieved chunk, the variant the
\* fallback property has to tell from extractReferences
extractReferencesUncut(relevant, mentioned, message) ==
    LET selected == mentionedDocs(relevant, mentioned)
    IN  IF Len(selected) > 0
        THEN Array([j \in 1..Len(selected) |-> referenceOf(selected[j], message)])
        ELSE Array([j \in 1..Len(relevant) |-> topReferenceOf(relevant[j])])

\* const references, with the fallback to the first chunks when it is empty
extractReferences(relevant, mentioned, message) ==
    LET selected == mentionedDocs(relevant, mentioned)
    IN  IF Len(selected) > 0
        THEN Array([j \in 1..Len(selected) |-> referenceOf(selected[j], message)])
        ELSE Array([j \in 1..Min(TopReferences, Len(relevant)) |->
                      topReferenceOf(relevant[j])])

(***************************************************************************)
(* Error messages: a message is a string; CharsOf gives its characters     *)
(***************************************************************************)

\* what model.invoke(prompt) may throw: error.message
ErrContextLength ==
    "400 This model's maximum context length is 8192 tokens. However, your messages resulted in 16614 tokens. Please reduce the length of the messages."
ErrContextLengthTwoLines ==
    "400 This model's maximum context length is 8192 tokens.\nHowever, your messages resulted in 16614 tokens."
ErrContextLengthOnly ==
    "400 The maximum context length is 8192 tokens."
\* what req.json() throws for a body that is not JSON
ErrMalformedBody ==
    "Unexpected end of JSON input"
GeneratorErrors ==
    {ErrRateLimit, ErrContextLength, ErrContextLengthTwoLines, ErrContextLengthOnly}

\* the characters of the messages of the model; those of null are none
CharsOf ==
    (ErrMalformedBody :>
        <<"U", "n", "e", "x", "p", "e", "c", "t", "e", "d", " ", "e", "n", "d", " ", "o", "f", " ", "J", "S", "O", "N", " ", "i", "n", "p", "u", "t">>) @@
    ("null" :>
        <<>>) @@
    ("Document ID, message, and API key configuration are required" :>
        <<"D", "o", "c", "u", "m", "e", "n", "t", " ", "I", "D", ",", " ", "m", "e", "s", "s",
        "a", "g", "e", ",", " ", "a", "n", "d", " ", "A", "P", "I", " ", "k", "e", "y", " ",
        "c", "o", "n", "f", "i", "g", "u", "r", "a", "t", "i", "o", "n", " ", "a", "r", "e",
        " ", "r", "e", "q", "u", "i", "r", "e", "d">>) @@
    ("Document not found" :>
        <<"D", "o", "c", "u", "m", "e", "n", "t", " ", "n", "o", "t", " ", "f", "o", "u", "n",
        "d">>) @@
    ("Document has no content to analyze" :>
        <<"D", "o", "c", "u", "m", "e", "n", "t", " ", "h", "a", "s", " ", "n", "o", " ", "c",
        "o", "n", "t", "e", "n", "t", " ", "t", "o", " ", "a", "n", "a", "l", "y", "z", "e">>) @@
    ("Failed to process document content" :>
        <<"F", "a", "i", "l", "e", "d", " ", "t", "o", " ", "p", "r", "o", "c", "e", "s", "s",
        " ", "d", "o", "c", "u", "m", "e", "n", "t", " ", "c", "o", "n", "t", "e", "n", "t">>) @@
    ("Voyage AI API key is required for Anthropic provider" :>
        <<"V", "o", "y", "a", "g", "e", " ", "A", "I", " ", "A", "P", "I", " ", "k", "e", "y",
        " ", "i", "s", " ", "r", "e", "q", "u", "i", "r", "e", "d", " ", "f", "o", "r", " ",
        "A", "n", "t", "h", "r", "o", "p", "i", "c", " ", "p", "r", "o", "v", "i", "d", "e",
        "r">>) @@
    ("Failed to process chat request: " :>
        <<"F", "a", "i", "l", "e", "d", " ", "t", "o", " ", "p", "r", "o", "c", "e", "s", "s",
        " ", "c", "h", "a", "t", " ", "r", "e", "q", "u", "e", "s", "t", ":", " ">>) @@
    ("Maximum of 128 texts can be embedded at once" :>
        <<"M", "a", "x", "i", "m", "u", "m", " ", "o", "f", " ", "1", "2", "8", " ", "t", "e",
        "x", "t", "s", " ", "c", "a", "n", " ", "b", "e", " ", "e", "m", "b", "e", "d", "d",
        "e", "d", " ", "a", "t", " ", "o", "n", "c", "e">>) @@
    ("Voyage AI API error" :>
        <<"V", "o", "y", "a", "g", "e", " ", "A", "I", " ", "A", "P", "I", " ", "e", "r", "r",
        "o", "r">>) @@
    ("Cannot read properties of undefined (reading 'embedding')" :>
        <<"C", "a", "n", "n", "o", "t", " ", "r", "e", "a", "d", " ", "p", "r", "o", "p", "e",
        "r", "t", "i", "e", "s", " ", "o", "f", " ", "u", "n", "d", "e", "f", "i", "n", "e",
        "d", " ", "(", "r", "e", "a", "d", "i", "n", "g", " ", "'", "e", "m", "b", "e", "d",
        "d", "i", "n", "g", "'", ")">>) @@
    ("sessionStorage is not defined" :>
        <<"s", "e", "s", "s", "i", "o", "n", "S", "t", "o", "r", "a", "g", "e", " ", "i", "s",
        " ", "n", "o", "t", " ", "d", "e", "f", "i", "n", "e", "d">>) @@
    ("Vectors must have the same length" :>
        <<"V", "e", "c", "t", "o", "r", "s", " ", "m", "u", "s", "t", " ", "h", "a", "v", "e",
        " ", "t", "h", "e", " ", "s", "a", "m", "e", " ", "l", "e", "n", "g", "t", "h">>) @@
    ("No documents in vector store" :>
        <<"N", "o", " ", "d", "o", "c", "u", "m", "e", "n", "t", "s", " ", "i", "n", " ", "v",
        "e", "c", "t", "o", "r", " ", "s", "t", "o", "r", "e">>) @@
    ("Voyage API key is required for Anthropic provider" :>
        <<"V", "o", "y", "a", "g", "e", " ", "A", "P", "I", " ", "k", "e", "y", " ", "i", "s",
        " ", "r", "e", "q", "u", "i", "r", "e", "d", " ", "f", "o", "r", " ", "A", "n", "t",
        "h", "r", "o", "p", "i", "c", " ", "p", "r", "o", "v", "i", "d", "e", "r">>) @@
    ("Cannot read properties of undefined (reading 'metadata')" :>
        <<"C", "a", "n", "n", "o", "t", " ", "r", "e", "a", "d", " ", "p", "r", "o", "p", "e",
        "r", "t", "i", "e", "s", " ", "o", "f", " ", "u", "n", "d", "e", "f", "i", "n", "e",
        "d", " ", "(", "r", "e", "a", "d", "i", "n", "g", " ", "'", "m", "e", "t", "a", "d",
        "a", "t", "a", "'", ")">>) @@
    (ErrRateLimit :>
        <<"4", "2", "9", " ", "R", "a", "t", "e", " ", "l", "i", "m", "i", "t", " ", "e", "x",
        "c", "e", "e", "d", "e", "d">>) @@
    (ErrContextLength :>
        <<"4", "0", "0", " ", "T", "h", "i", "s", " ", "m", "o", "d", "e", "l", "'", "s", " ",
        "m", "a", "x", "i", "m", "u", "m", " ", "c", "o", "n", "t", "e", "x", "t", " ", "l",
        "e", "n", "g", "t", "h", " ", "i", "s", " ", "8", "1", "9", "2", " ", "t", "o", "k",
        "e", "n", "s", ".", " ", "H", "o", "w", "e", "v", "e", "r", ",", " ", "y", "o", "u",
        "r", " ", "m", "e", "s", "s", "a", "g", "e", "s", " ", "r", "e", "s", "u", "l", "t",
        "e", "d", " ", "i", "n", " ", "1", "6", "6", "1", "4", " ", "t", "o", "k", "e", "n",
        "s", ".", " ", "P", "l", "e", "a", "s", "e", " ", "r", "e", "d", "u", "c", "e", " ",
        "t", "h", "e", " ", "l", "e", "n", "g", "t", "h", " ", "o", "f", " ", "t", "h", "e",
        " ", "m", "e", "s", "s", "a", "g", "e", "s", ".">>) @@
    (ErrContextLengthTwoLines :>
        <<"4", "0", "0", " ", "T", "h", "i", "s", " ", "m", "o", "d", "e", "l", "'", "s", " ",
        "m", "a", "x", "i", "m", "u", "m", " ", "c", "o", "n", "t", "e", "x", "t", " ", "l",
        "e", "n", "g", "t", "h", " ", "i", "s", " ", "8", "1", "9", "2", " ", "t", "o", "k",
        "e", "n", "s", ".", "\n", "H", "o", "w", "e", "v", "e", "r", ",", " ", "y", "o", "u",
        "r", " ", "m", "e", "s", "s", "a", "g", "e", "s", " ", "r", "e", "s", "u", "l", "t",
        "e", "d", " ", "i", "n", " ", "1", "6", "6", "1", "4", " ", "t", "o", "k", "e", "n",
        "s", ".">>) @@
    (ErrContextLengthOnly :>
        <<"4", "0", "0", " ", "T", "h", "e", " ", "m", "a", "x", "i", "m", "u", "m", " ", "c",
        "o", "n", "t", "e", "x", "t", " ", "l", "e", "n", "g", "t", "h", " ", "i", "s", " ",
        "8", "1", "9", "2", " ", "t", "o", "k", "e", "n", "s", ".">>)

\* the message a response body carries in its error field
errorOf(r) == IF r.cause = NULL THEN r.error ELSE r.error \o r.cause
errorCharsOf(r) == CharsOf[r.error] \o CharsOf[r.cause]

(***************************************************************************)
(* parseContextLengthError (src/lib/utils.ts) and the chat client          *)
(***************************************************************************)

\* the literal parts of
\* /maximum context length is (\d+) tokens.*resulted in (\d+) tokens/i
RegexPrefix == <<"m", "a", "x", "i", "m", "u", "m", " ", "c", "o", "n", "t", "e", "x", "t", " ",
                 "l", "e", "n", "g", "t", "h", " ", "i", "s", " ">>
RegexTokens == <<" ", "t", "o", "k", "e", "n", "s">>
RegexResulted == <<"r", "e", "s", "u", "l", "t", "e", "d", " ", "i", "n", " ">>

\* the characters the regular expression's . does not match
LineTerminators == {"\n", "\r"}

\* word occurs in text at offset i, letter case ignored (the i flag)
matchesAt(text, word, i) ==
    /\ i + Len(word) <= Len(text)
    /\ \A j \in 1..Len(word) : LowerChar(text[i + j]) = LowerChar(word[j])

\* the two captured groups of a match that starts at offset i, or <<>>.  The
\* .* is greedy: the last "resulted in (\d+) tokens" of the line is taken.
regexMatchAt(text, i) ==
    IF ~matchesAt(text, RegexPrefix, i) THEN <<>>
    ELSE LET p == i + Len(RegexPrefix)
             e == RunEnd(text, p, Digits)
         IN  IF ~(e > p /\ matchesAt(text, RegexTokens, e)) THEN <<>>
             ELSE LET t    == e + Len(RegexTokens)
                      f(j) == RunEnd(text, j + Len(RegexResulted), Digits)
                      ends == {j \in t..Len(text) :
                                  /\ \A h \in (t + 1)..j : text[h] \notin LineTerminators
                                  /\ matchesAt(text, RegexResulted, j)
                                  /\ f(j) > j + Len(RegexResulted)
                                  /\ matchesAt(text, RegexTokens, f(j))}
                  IN  IF ends = {} THEN <<>>
                      ELSE LET j == CHOOSE j \in ends : \A h \in ends : h <= j
                           IN  <<SubSeq(text, p + 1, e),
                                 SubSeq(text, j + Len(RegexResulted) + 1, f(j))>>

\* the null parseContextLengthError returns, and the client's contextError
\* when there is none
NoContextError == [null |-> TRUE]

\* parseContextLengthError(errorMessage)
parseContextLengthError(errorMessage) ==
    LET starts == {i \in 0..Len(errorMessage) : regexMatchAt(errorMessage, i) # <<>>}
    IN  IF starts = {} THEN NoContextError
        ELSE LET matches == regexMatchAt(errorMessage, SetMin(starts))
             IN  [maxTokens |-> parseInt(matches[1]),
                  usedTokens |-> parseInt(matches[2]),
                  isContextLengthError |-> TRUE]

\* the messages of the chat: the user's, the assistant's answer, and the
\* assistant's "Sorry, I encountered an error ...: ${error.message}"
UserMessage == [role |-> "user", content |-> "input", error |-> ""]
AnswerMessage == [role |-> "assistant", content |-> "response", error |-> ""]
SorryMessage(errorMessage) == [role |-> "assistant", content |-> "sorry", error |-> errorMessage]
NotFoundHint ==
    "Document not found. This might be due to the server restarting. Please try uploading your document again."

(***************************************************************************)
(* The chat POST handler                                                   *)
(***************************************************************************)

\* apiKeyConfig of the request body; "" is a missing (undefined) string
NoConfig == [provider |-> NULL, apiKey |-> "", voyageApiKey |-> ""]

ApiKeyConfigs ==
    { NoConfig,
      [provider |-> "openai",    apiKey |-> "sk-openai",    voyageApiKey |-> ""],
      [provider |-> "anthropic", apiKey |-> "sk-anthropic", voyageApiKey |-> "pa-voyage"],
      [provider |-> "anthropic", apiKey |-> "sk-anthropic", voyageApiKey |-> ""] }

Bodies == [documentId : DocumentIds, message : Messages, apiKeyConfig : ApiKeyConfigs]

\* what the chat model may answer to model.invoke(prompt)
GeneratorReplies ==
    {[ok |-> TRUE, text |-> a, error |-> NULL] : a \in Answers}
        \cup {[ok |-> FALSE, text |-> <<>>, error |-> e] : e \in GeneratorErrors}

OpenAIQueryReplies ==
    {[ok |-> FALSE, vector |-> <<>>]} \cup {[ok |-> TRUE, vector |-> v] : v \in QueryVectors}

\* getApiKey(provider) in the route handler: sessionStorage is a browser
\* global.  A server runtime without it raises a ReferenceError; one that
\* provides it holds what its environment has put there: no key (storeApiKey
\* only runs in the browser), or a key under apiKey_voyage.
getApiKey(provider) ==
    IF serverStorage = "undefined"
    THEN [throws |-> "sessionStorage is not defined", value |-> ""]
    ELSE IF serverStorage = "voyage" /\ provider = "voyage"
    THEN [throws |-> NULL, value |-> "pa-stored"]
    ELSE [throws |-> NULL, value |-> ""]

\* NextResponse.json({ error }, { status })
ErrorResponse(status, error) == [status |-> status, error |-> error, cause |-> NULL]

BadRequestResponse ==
    ErrorResponse(400, "Document ID, message, and API key configuration are required")
NotFoundResponse == ErrorResponse(404, "Document not found")
NoContentResponse == ErrorResponse(400, "Document has no content to analyze")
\* the response when docs.length === 0 ...
NoChunksResponse == ErrorResponse(500, "Failed to process document content")
\* ... and the response of the catch around the chunking loop
ChunkingFailedResponse == ErrorResponse(500, "Failed to process document content")
MissingVoyageKeyResponse ==
    ErrorResponse(400, "Voyage AI API key is required for Anthropic provider")
\* the outer catch: `Failed to process chat request: ${errorMessage}`
CaughtResponse(errorMessage) ==
    [status |-> 500, error |-> "Failed to process chat request: ", cause |-> errorMessage]
OkResponse == [status |-> 200, error |-> NULL, cause |-> NULL]

\* a reply after which the handler goes on with the stage it is in, the
\* variant the failure property has to tell from Reply
ReplyAndGoOn(r) == pc' = pc /\ response' = r

\* return NextResponse.json(...)
Reply(r) == pc' = "responded" /\ response' = r

\* nothing uploaded yet
NoUpload == [status |-> 0, documentId |-> "", isUpdate |-> FALSE]

\* the null of activeReference and of highlightRange
NoReference == [null |-> TRUE]
NoRange == [null |-> TRUE]

InitFront ==
    /\ uploadResponse = NoUpload
    /\ layoutDocumentId = NULL
    /\ layoutDocument = NullDocument
    /\ layoutError = NULL
    /\ activeReference = NoReference
    /\ fetches = {}
    /\ currentPage = 0
    /\ highlightRange = NoRange

Init ==
    /\ globalDocuments = [id \in {d.id : d \in SampleDocuments} |->
                             CHOOSE d \in SampleDocuments : d.id = id]
    /\ serverStorage \in {"undefined", "empty", "voyage"}
    /\ pc = "idle"
    /\ body = [documentId |-> "", message |-> <<>>, apiKeyConfig |-> NoConfig]
    /\ document = NullDocument
    /\ docs = <<>>
    /\ documentEmbeddings = <<>>
    /\ queryEmbedding = <<>>
    /\ searchK = SearchK
    /\ similarities = <<>>
    /\ relevantDocs = <<>>
    /\ responseText = <<>>
    /\ mentionedPages = {}
    /\ references = <<>>
    /\ response = [status |-> 0, error |-> NULL, cause |-> NULL]
    /\ vendorCalls = <<>>
    /\ previousRun = NoRun
    /\ isLoading = TRUE
    /\ contextError = NoContextError
    /\ lastMessage = UserMessage
    /\ messages = <<UserMessage>>
    /\ inFlight = 1
    /\ InitFront

\* POST, from the request to the document lookup
Receive(b) ==
    /\ pc = "idle"
    /\ body' = b
    /\ IF b.documentId = "" \/ Len(b.message) = 0 \/ b.apiKeyConfig = NoConfig
       THEN Reply(BadRequestResponse) /\ document' = document
       ELSE LET doc == getDocument(b.documentId)
            IN  IF doc = NullDocument
                THEN Reply(NotFoundResponse) /\ document' = document
                ELSE IF Len(doc.pageContents) = 0
                THEN Reply(NoContentResponse) /\ document' = document
                ELSE document' = doc /\ pc' = "chunking" /\ response' = response
    /\ UNCHANGED <<frontVars, clientVars, previousRun, globalDocuments, serverStorage, docs, documentEmbeddings,
                   searchVars, responseText, mentionedPages, references, vendorCalls>>

\* POST, for a request whose body req.json() cannot parse
ReceiveMalformed ==
    /\ pc = "idle"
    /\ Reply(CaughtResponse(ErrMalformedBody))
    /\ UNCHANGED <<frontVars, clientVars, previousRun, globalDocuments, serverStorage, body,
                   document, docs, documentEmbeddings, searchVars, responseText,
                   mentionedPages, references, vendorCalls>>

\* a chunking loop that reads the document from the store again, the variant
\* the isolation property has to tell from ChunkDocument
ChunkDocumentReread ==
    /\ pc = "chunking"
    /\ docs' = IF getDocument(body.documentId) = NullDocument THEN <<>>
               ELSE splitPages(getDocument(body.documentId).pageContents, 0)
    /\ IF Len(docs') = 0
       THEN Reply(NoChunksResponse)
       ELSE pc' = "embedDocuments" /\ response' = response
    /\ UNCHANGED <<frontVars, clientVars, previousRun, globalDocuments, serverStorage, body,
                   document, documentEmbeddings, searchVars, responseText,
                   mentionedPages, references, vendorCalls>>

\* POST, the chunking loop and the check of docs.length
ChunkDocument ==
    /\ pc = "chunking"
    /\ docs' = splitPages(document.pageContents, 0)
    /\ IF Len(docs') = 0
       THEN Reply(NoChunksResponse)
       ELSE pc' = "embedDocuments" /\ response' = response
    /\ UNCHANGED <<frontVars, clientVars, previousRun, globalDocuments, serverStorage, body, document, documentEmbeddings,
                   searchVars, responseText, mentionedPages, references, vendorCalls>>

\* a handler that invokes the generator as soon as the chunks are embedded,
\* without the search: the variant the stage-order property has to tell from
\* AfterEmbedDocuments
AfterEmbedDocumentsUnsearched(r, vendor) ==
    /\ vendorCalls' = vendorCalls \o Repeat(vendor, r.calls)
    /\ IF r.error # NULL
       THEN Reply(CaughtResponse(r.error)) /\ documentEmbeddings' = documentEmbeddings
       ELSE documentEmbeddings' = r.vectors /\ pc' = "generate"
            /\ response' = response

\* the embedding result r of `vendor` arrives
AfterEmbedDocuments(r, vendor) ==
    /\ vendorCalls' = vendorCalls \o Repeat(vendor, r.calls)
    /\ IF r.error # NULL
       THEN Reply(CaughtResponse(r.error)) /\ documentEmbeddings' = documentEmbeddings
       ELSE documentEmbeddings' = r.vectors /\ pc' = "similaritySearch"
            /\ response' = response

\* POST, "Set up embeddings based on provider"
EmbedDocuments ==
    /\ pc = "embedDocuments"
    /\ LET cfg   == body.apiKeyConfig
           texts == [j \in 1..Len(docs) |-> docs[j].pageContent]
       IN  IF cfg.provider = "openai"
           THEN \E reply \in OpenAIReplies :
                   AfterEmbedDocuments(openAIEmbedDocuments(texts, reply), "openai.embeddings")
           ELSE LET key == IF cfg.voyageApiKey # ""
                           THEN [throws |-> NULL, value |-> cfg.voyageApiKey]
                           ELSE getApiKey("voyage")
                IN  IF key.throws # NULL
                    THEN /\ Reply(CaughtResponse(key.throws))
                         /\ UNCHANGED <<documentEmbeddings, vendorCalls>>
                    ELSE IF key.value = ""
                    THEN /\ Reply(MissingVoyageKeyResponse)
                         /\ UNCHANGED <<documentEmbeddings, vendorCalls>>
                    ELSE \E reply \in VoyageReplies(texts) :
                            AfterEmbedDocuments(embedDocuments(texts, reply),
                                                "voyage.embeddings")
    /\ UNCHANGED <<frontVars, clientVars, previousRun, globalDocuments, serverStorage, body, document, docs,
                   searchVars, responseText, mentionedPages, references>>

\* the query embedding q of `vendor` arrives inside similaritySearch
AfterEmbedQuery(q, vendor) ==
    /\ vendorCalls' = vendorCalls \o Repeat(vendor, q.calls)
    /\ IF q.error # NULL
       THEN /\ Reply(CaughtResponse(q.error))
            /\ UNCHANGED <<queryEmbedding, similarities, relevantDocs>>
       ELSE IF \E i \in 1..Len(documentEmbeddings) :
                  cosineSimilarity(q.vector, documentEmbeddings[i]).throws
       THEN /\ Reply(CaughtResponse("Vectors must have the same length"))
            /\ queryEmbedding' = q.vector
            /\ UNCHANGED <<similarities, relevantDocs>>
       ELSE LET found == similaritySearch(docs, documentEmbeddings, q.vector, searchK)
            IN  /\ queryEmbedding' = q.vector
                /\ similarities' = found.similarities
                /\ relevantDocs' = found.documents
                /\ pc' = "generate"
                /\ response' = response

\* POST, new SimpleVectorStore(...) and vectorStore.similaritySearch(message, 100)
SimilaritySearch ==
    /\ pc = "similaritySearch"
    /\ LET cfg == body.apiKeyConfig
       IN  IF Len(documentEmbeddings) = 0
           THEN /\ Reply(CaughtResponse("No documents in vector store"))
                /\ UNCHANGED <<queryEmbedding, similarities, relevantDocs, vendorCalls>>
           ELSE IF cfg.provider = "openai"
           THEN \E reply \in OpenAIQueryReplies :
                   AfterEmbedQuery([error |-> IF reply.ok THEN NULL ELSE ErrRateLimit,
                                    calls |-> 1, vector |-> reply.vector],
                                   "openai.embeddings")
           ELSE IF cfg.voyageApiKey = ""
           THEN /\ Reply(CaughtResponse("Voyage API key is required for Anthropic provider"))
                /\ UNCHANGED <<queryEmbedding, similarities, relevantDocs, vendorCalls>>
           ELSE \E reply \in VoyageQueryReplies :
                   AfterEmbedQuery(embedQuery(body.message, reply), "voyage.embeddings")
    /\ UNCHANGED <<frontVars, clientVars, previousRun, globalDocuments, serverStorage, body, document, docs,
                   documentEmbeddings, searchK, responseText, mentionedPages, references>>

\* POST, the prompt and model.invoke(prompt)
Generate ==
    /\ pc = "generate"
    /\ IF \E j \in 1..Len(relevantDocs) : relevantDocs[j] = UndefinedDocument
       THEN /\ Reply(CaughtResponse("Cannot read properties of undefined (reading 'metadata')"))
            /\ UNCHANGED <<responseText, vendorCalls>>
       ELSE \E reply \in GeneratorReplies :
               /\ vendorCalls' = Append(vendorCalls, body.apiKeyConfig.provider \o ".chat")
               /\ IF reply.ok
                  THEN responseText' = reply.text /\ pc' = "extract" /\ response' = response
                  ELSE Reply(CaughtResponse(reply.error)) /\ responseText' = responseText
    /\ UNCHANGED <<frontVars, clientVars, previousRun, globalDocuments, serverStorage, body, document, docs,
                   documentEmbeddings, searchVars, mentionedPages, references>>

\* POST, from mentionedPages to the response
ExtractCitations ==
    /\ pc = "extract"
    /\ mentionedPages' = mentionedPagesOf(responseText)
    /\ references' = extractReferences(relevantDocs, mentionedPages', body.message)
    /\ Reply(OkResponse)
    /\ UNCHANGED <<frontVars, clientVars, previousRun, globalDocuments, serverStorage, body, document, docs,
                   documentEmbeddings, searchVars, responseText, vendorCalls>>

\* ChatInterface.handleSubmit, from the response of fetch('/api/chat') on
HandleResponse ==
    /\ pc = "responded"
    /\ isLoading
    /\ isLoading' = FALSE
    /\ inFlight' = inFlight - 1
    /\ IF response.status = 200
       THEN lastMessage' = AnswerMessage /\ contextError' = contextError
       ELSE IF response.status = 404
       THEN lastMessage' = SorryMessage(NotFoundHint) /\ contextError' = contextError
       ELSE LET contextLengthError == parseContextLengthError(errorCharsOf(response))
            IN  IF contextLengthError # NoContextError
                THEN /\ contextError' = [maxTokens |-> contextLengthError.maxTokens,
                                         usedTokens |-> contextLengthError.usedTokens]
                     /\ lastMessage' = lastMessage
                ELSE /\ lastMessage' = SorryMessage(errorOf(response))
                     /\ contextError' = contextError
    /\ messages' = IF lastMessage' = lastMessage THEN messages
                   ELSE Append(messages, lastMessage')
    /\ UNCHANGED <<frontVars, globalDocuments, serverStorage, pc, body, document, docs,
                   documentEmbeddings, searchVars, responseText, mentionedPages,
                   references, response, vendorCalls, previousRun>>

\* an upload stores a document, at any await of the request in flight
StoreDocument(doc) ==
    /\ globalDocuments' = storeDocument(globalDocuments, doc)
    /\ UNCHANGED <<chatVars, frontVars>>

\* a deletion removes a document, at any await of the request in flight
RemoveDocument(id) ==
    /\ globalDocuments' = removeDocument(globalDocuments, id)
    /\ UNCHANGED <<chatVars, frontVars>>

Next ==
    \/ HandleResponse
    \/ \E b \in Bodies : Receive(b)
    \/ ReceiveMalformed
    \/ ChunkDocument
    \/ EmbedDocuments
    \/ SimilaritySearch
    \/ Generate
    \/ ExtractCitations

Spec == Init /\ [][Next]_vars

(***************************************************************************)
(* similaritySearch on its own: an index of n (chunk, embedding) pairs, a  *)
(* query embedding and a k                                                 *)
(***************************************************************************)

MaxChunks == 3
MaxK == 4

\* embeddings with integral norms: a zero vector, two vectors of the same
\* direction and a vector opposite to them
SearchVectors == { <<0, 0>>, <<1, 0>>, <<2, 0>>, <<0, 1>>, <<3, 4>>, <<-1, 0>> }

IndexChunk(j) == [pageContent |-> <<"c">>, metadata |-> [pageNumber |-> j]]

InitSearch ==
    /\ globalDocuments = <<>>
    /\ serverStorage = "empty"
    /\ pc = "similaritySearch"
    /\ body = [documentId |-> "d1", message |-> MsgShort,
               apiKeyConfig |-> [provider |-> "openai", apiKey |-> "sk-openai",
                                 voyageApiKey |-> ""]]
    /\ document = NullDocument
    /\ \E n \in 0..MaxChunks :
          /\ docs = [j \in 1..n |-> IndexChunk(j)]
          /\ documentEmbeddings \in [1..n -> SearchVectors]
    /\ queryEmbedding = <<>>
    /\ searchK = DefaultK
    /\ similarities = <<>>
    /\ relevantDocs = <<>>
    /\ responseText = <<>>
    /\ mentionedPages = {}
    /\ references = <<>>
    /\ response = [status |-> 0, error |-> NULL, cause |-> NULL]
    /\ vendorCalls = <<>>
    /\ previousRun = NoRun
    /\ isLoading = TRUE
    /\ contextError = NoContextError
    /\ lastMessage = UserMessage
    /\ messages = <<UserMessage>>
    /\ inFlight = 1
    /\ InitFront

\* vectorStore.similaritySearch(query, k), the provider embedding query as q
SearchCall(q, k) ==
    /\ pc = "similaritySearch"
    /\ searchK' = k
    /\ IF Len(documentEmbeddings) = 0
       THEN /\ Reply(CaughtResponse("No documents in vector store"))
            /\ UNCHANGED <<queryEmbedding, similarities, relevantDocs>>
       ELSE LET found == similaritySearch(docs, documentEmbeddings, q, k)
            IN  /\ queryEmbedding' = q
                /\ similarities' = found.similarities
                /\ relevantDocs' = found.documents
                /\ pc' = "searched"
                /\ response' = response
    /\ UNCHANGED <<frontVars, clientVars, previousRun, globalDocuments, serverStorage, body, document, docs,
                   documentEmbeddings, responseText, mentionedPages, references,
                   vendorCalls>>

NextSearch == \E q \in SearchVectors, k \in 0..MaxK : SearchCall(q, k)

SpecSearch == InitSearch /\ [][NextSearch]_vars

(***************************************************************************)
(* A request with uploads and deletions going on                           *)
(***************************************************************************)

\* the store holds report.pdf only
InitConcurrent ==
    /\ globalDocuments = [id \in {DocReport.id} |-> DocReport]
    /\ serverStorage \in {"undefined", "empty"}
    /\ pc = "idle"
    /\ body = [documentId |-> "", message |-> <<>>, apiKeyConfig |-> NoConfig]
    /\ document = NullDocument
    /\ docs = <<>>
    /\ documentEmbeddings = <<>>
    /\ queryEmbedding = <<>>
    /\ searchK = SearchK
    /\ similarities = <<>>
    /\ relevantDocs = <<>>
    /\ responseText = <<>>
    /\ mentionedPages = {}
    /\ references = <<>>
    /\ response = [status |-> 0, error |-> NULL, cause |-> NULL]
    /\ vendorCalls = <<>>
    /\ previousRun = NoRun
    /\ isLoading = TRUE
    /\ contextError = NoContextError
    /\ lastMessage = UserMessage
    /\ messages = <<UserMessage>>
    /\ inFlight = 1
    /\ InitFront

NextConcurrent ==
    \/ Next
    \/ \E doc \in UploadedDocuments : StoreDocument(doc)
    \/ \E id \in RemovedIds : RemoveDocument(id)

SpecConcurrent == InitConcurrent /\ [][NextConcurrent]_vars

(***************************************************************************)
(* Citation extraction on its own: an answer, the ranked chunks and the    *)
(* question, extracted again and again                                     *)
(***************************************************************************)

\* the ranked chunks: those of report.pdf, in page order and in reverse, and
\* those of the long document
RankedChunks ==
    LET report == splitPages(DocReport.pageContents, 0)
    IN  { report,
          Array([j \in 1..Len(report) |-> report[Len(report) + 1 - j]]),
          splitPages(DocLong.pageContents, 0) }

Questions == Messages \ {<<>>}

InitExtract ==
    /\ globalDocuments = [id \in {d.id : d \in SampleDocuments} |->
                             CHOOSE d \in SampleDocuments : d.id = id]
    /\ serverStorage = "empty"
    /\ pc = "extract"
    /\ \E question \in Questions :
          body = [documentId |-> "d1", message |-> question,
                  apiKeyConfig |-> [provider |-> "openai", apiKey |-> "sk-openai",
                                    voyageApiKey |-> ""]]
    /\ document = NullDocument
    /\ docs = <<>>
    /\ documentEmbeddings = <<>>
    /\ queryEmbedding = <<>>
    /\ searchK = SearchK
    /\ similarities = <<>>
    /\ relevantDocs \in RankedChunks
    /\ responseText \in Answers
    /\ mentionedPages = {}
    /\ references = <<>>
    /\ response = [status |-> 0, error |-> NULL, cause |-> NULL]
    /\ vendorCalls = <<>>
    /\ previousRun = NoRun
    /\ isLoading = TRUE
    /\ contextError = NoContextError
    /\ lastMessage = UserMessage
    /\ messages = <<UserMessage>>
    /\ inFlight = 1
    /\ InitFront

\* a later request whose answer is text and whose question is message
\* reaches the citation extraction with the same ranked chunks
ExtractAgain(text, message) ==
    /\ pc = "responded"
    /\ previousRun' = [responseText |-> responseText, relevantDocs |-> relevantDocs,
                       message |-> body.message, references |-> references]
    /\ responseText' = text
    /\ body' = [body EXCEPT !.message = message]
    /\ mentionedPages' = mentionedPagesOf(text)
    /\ references' = extractReferences(relevantDocs, mentionedPages', message)
    /\ UNCHANGED <<frontVars, clientVars, globalDocuments, serverStorage, pc, document, docs,
                   documentEmbeddings, searchVars, response, vendorCalls>>

NextExtract ==
    \/ ExtractCitations
    \/ \E text \in Answers, message \in Questions : ExtractAgain(text, message)

SpecExtract == InitExtract /\ [][NextExtract]_vars

(***************************************************************************)
(* Properties                                                              *)
(***************************************************************************)

\* the handler answered with the answer and its references
Succeeded == pc = "responded" /\ response.status = 200

\* the retrieved chunks that lie on a mentioned page
CitedChunks ==
    {j \in 1..Len(relevantDocs) : relevantDocs[j].metadata.pageNumber \in mentionedPages}

\* C1: every reference the handler returns has a highlightRange with
\* 0 <= start <= end <= length(fullText) (the offsets are stored doubled).
HighlightRangeValid ==
    \A j \in 1..Len(references) :
        LET r == references[j]
        IN  /\ 0 <= r.highlightRange.start
            /\ r.highlightRange.start <= r.highlightRange.end
            /\ r.highlightRange.end <= 2 * Len(r.fullText)

\* C2: when the handler answers and no retrieved chunk lies on a mentioned
\* page, the references are the first min(3, n) of the n retrieved chunks, in
\* rank order; so there is a reference whenever a chunk was retrieved.
FallbackTopThree ==
    (Succeeded /\ CitedChunks = {}) =>
        /\ Len(references) = Min(3, Len(relevantDocs))
        /\ \A j \in 1..Len(references) :
              /\ references[j].pageNumber = relevantDocs[j].metadata.pageNumber
              /\ references[j].fullText = relevantDocs[j].pageContent
        /\ (Len(relevantDocs) >= 1 => Len(references) >= 1)

\* a fallback that had to cut: the answer cites a page, no retrieved chunk is
\* on it, and more than three chunks were retrieved
FallbackTopThreeWitness ==
    /\ Succeeded
    /\ mentionedPages # {}
    /\ CitedChunks = {}
    /\ Len(relevantDocs) > 3
    /\ Len(references) = 3

\* the page numbers written in text as "page", in any letter case, some
\* whitespace and a number
WrittenPages(text) ==
    LET isPage(i) == /\ LowerChar(text[i + 1]) = <<"p">>
                     /\ LowerChar(text[i + 2]) = <<"a">>
                     /\ LowerChar(text[i + 3]) = <<"g">>
                     /\ LowerChar(text[i + 4]) = <<"e">>
        numberAt(i) == RunEnd(text, i + 4, WhitespaceChars)
        numberEnd(i) == RunEnd(text, numberAt(i), Digits)
    IN  {parseInt(SubSeq(text, numberAt(i) + 1, numberEnd(i))) :
            i \in {i \in 0..(Len(text) - 4) :
                      isPage(i) /\ numberAt(i) > i + 4 /\ numberEnd(i) > numberAt(i)}}

\* C3: the mentioned pages are the page numbers written in the answer; when a
\* retrieved chunk lies on a mentioned page, the references are exactly the
\* retrieved chunks on mentioned pages, one each, in rank order.
CitedPagesOnly ==
    Succeeded =>
        /\ mentionedPages = WrittenPages(responseText)
        /\ CitedChunks # {} =>
              /\ Len(references) = Cardinality(CitedChunks)
              /\ \A j \in CitedChunks :
                    LET at == Cardinality({i \in CitedChunks : i <= j})
                    IN  /\ references[at].pageNumber = relevantDocs[j].metadata.pageNumber
                        /\ references[at].fullText = relevantDocs[j].pageContent
              /\ \A r \in 1..Len(references) : references[r].pageNumber \in mentionedPages

\* an answer that cites several pages, without brackets, of which only some
\* of the retrieved chunks are on
CitedPagesOnlyWitness ==
    /\ Succeeded
    /\ Cardinality(mentionedPages) > 1
    /\ responseText = AnsMixedCase
    /\ CitedChunks # {}
    /\ Len(references) < Len(relevantDocs)

\* the similarity of indexed chunk i (0-based) to the query, as a fraction
ScoreOf(i) == cosineSimilarity(queryEmbedding, documentEmbeddings[i + 1])
\* chunk i ranks before chunk j: a higher score, or the same score and an
\* earlier place in the index
RanksBefore(i, j) ==
    LET a == ScoreOf(i)
        b == ScoreOf(j)
    IN  \/ a.num * b.den > b.num * a.den
        \/ a.num * b.den = b.num * a.den /\ i < j

\* C4: a search that returns gives the first min(k, n) of the n indexed
\* chunks in the order of descending score, equal scores in index order; with
\* k >= n every chunk exactly once.
SearchOrdering ==
    pc = "searched" =>
        LET n      == Len(documentEmbeddings)
            m      == Len(relevantDocs)
            idx(j) == similarities[j].index
        IN  /\ m = Min(searchK, n)
            /\ Len(similarities) = m
            /\ \A j \in 1..m : idx(j) \in 0..(n - 1) /\ relevantDocs[j] = docs[idx(j) + 1]
            /\ \A j \in 1..(m - 1) : RanksBefore(idx(j), idx(j + 1))
            /\ \A i \in 0..(n - 1) :
                  (\A j \in 1..m : idx(j) # i) => \A j \in 1..m : RanksBefore(idx(j), i)
            /\ searchK >= n =>
                  \A i \in 1..n : Cardinality({j \in 1..m : relevantDocs[j] = docs[i]}) = 1

\* a search that cuts (k < n) and returns two chunks of equal score
SearchOrderingWitness ==
    /\ pc = "searched"
    /\ searchK < Len(documentEmbeddings)
    /\ Len(relevantDocs) >= 2
    /\ \E j \in 1..(Len(similarities) - 1) :
          /\ similarities[j].similarity.num * similarities[j + 1].similarity.den
                = similarities[j + 1].similarity.num * similarities[j].similarity.den
          /\ similarities[j].similarity.num # 0
          /\ documentEmbeddings[similarities[j].index + 1]
                # documentEmbeddings[similarities[j + 1].index + 1]

\* C5: when the similarity search runs the index holds one embedding per
\* chunk, and every search result is a chunk.
IndexParallel ==
    /\ pc = "similaritySearch" => Len(documentEmbeddings) = Len(docs)
    /\ \A j \in 1..Len(relevantDocs) : relevantDocs[j] # UndefinedDocument

\* the voyage requests sent so far
VoyageCalls == Cardinality({j \in 1..Len(vendorCalls) : vendorCalls[j] = "voyage.embeddings"})

\* C6: embedDocuments on more texts than the batch cap sends at least two
\* requests and returns one vector per text (unless the vendor fails).
EmbedBatches ==
    (/\ pc \in {"similaritySearch", "generate", "extract", "responded"}
     /\ body.apiKeyConfig.provider = "anthropic"
     /\ body.apiKeyConfig.voyageApiKey # ""
     /\ Len(docs) > 128
     /\ response.cause # "Voyage AI API error")
        => VoyageCalls >= 2 /\ Len(documentEmbeddings) = Len(docs)

\* C7: the vectors embedDocuments returns are those of its texts, in order.
EmbedOrderPreserved ==
    (/\ pc = "similaritySearch"
     /\ body.apiKeyConfig.provider = "anthropic"
     /\ Len(documentEmbeddings) = Len(docs))
        => \A i \in 1..Len(docs) : documentEmbeddings[i] = EmbedModel(docs[i].pageContent)

\* C8: an Anthropic request without a Voyage key, once its document is
\* chunked, ends with the missing-key response and without a vendor call.
MissingKeyFailsFast ==
    (/\ pc \notin {"idle", "chunking", "embedDocuments"}
     /\ body.apiKeyConfig.provider = "anthropic"
     /\ body.apiKeyConfig.voyageApiKey = ""
     /\ Len(docs) > 0)
        => pc = "responded" /\ response = MissingVoyageKeyResponse /\ vendorCalls = <<>>

\* no chunking, embedding or generation step ran
NoStepRan ==
    /\ docs = <<>>
    /\ documentEmbeddings = <<>>
    /\ relevantDocs = <<>>
    /\ responseText = <<>>
    /\ vendorCalls = <<>>

\* C9, as stated: a request whose documentId is not in the store is answered
\* 404 'Document not found', and no step ran for it.
UnknownDocumentNotFound ==
    (pc # "idle" /\ body.documentId \notin DOMAIN globalDocuments)
        => pc = "responded" /\ response = NotFoundResponse /\ NoStepRan

\* C9, amended: a request that carries a documentId, a message and an
\* apiKeyConfig, and whose documentId is not in the store, is answered
\* 404 'Document not found', and no step ran for it.
ValidUnknownDocumentNotFound ==
    (/\ pc # "idle"
     /\ body.documentId # "" /\ Len(body.message) > 0 /\ body.apiKeyConfig # NoConfig
     /\ body.documentId \notin DOMAIN globalDocuments)
        => pc = "responded" /\ response = NotFoundResponse /\ NoStepRan

ValidUnknownDocumentWitness ==
    /\ pc = "responded"
    /\ body.documentId = "d9"
    /\ body.apiKeyConfig.provider = "anthropic"
    /\ response.status = 404

\* C10: a document whose chunking gave no chunk is answered with an error
\* other than the one of a failed chunking, and without a vendor call.
EmptyDocumentDistinct ==
    (pc = "responded" /\ document # NullDocument /\ docs = <<>>)
        => response # ChunkingFailedResponse /\ vendorCalls = <<>>

\* C11: every chunk carries the 1-based number of the page it was cut from,
\* skipped pages keep their number, and the page number of every chunk and of
\* every reference is one of the document's pages.
ChunkPageNumbers ==
    document # NullDocument =>
        LET pages == document.pageContents
        IN  /\ \A j \in 1..Len(docs) :
                  LET n == docs[j].metadata.pageNumber
                  IN  /\ n \in 1..Len(pages)
                      /\ docs[j].pageContent = trim(pages[n])
            /\ \A j \in 1..(Len(docs) - 1) :
                  docs[j].metadata.pageNumber < docs[j + 1].metadata.pageNumber
            /\ pc # "chunking" =>
                  \A n \in 1..Len(pages) :
                      Len(trim(pages[n])) > 0 =>
                          \E j \in 1..Len(docs) : docs[j].metadata.pageNumber = n
            /\ \A r \in 1..Len(references) : references[r].pageNumber \in 1..Len(pages)

\* a document whose first page is empty, chunked and cited: its first chunk
\* is on page 2
ChunkPageNumbersWitness ==
    /\ Succeeded
    /\ Len(document.pageContents[1]) = 0
    /\ docs[1].metadata.pageNumber = 2
    /\ \E r \in 1..Len(references) : references[r].pageNumber = 3

\* the (N, M) for which text contains "maximum context length is N tokens"
\* and, after it, "resulted in M tokens"
ClaimedContextErrors(text) ==
    LET numberEnd(p) == RunEnd(text, p, Digits)
        isNumber(p)  == numberEnd(p) > p /\ matchesAt(text, RegexTokens, numberEnd(p))
        first(i)     == i + Len(RegexPrefix)
        second(j)    == j + Len(RegexResulted)
    IN  {[maxTokens |-> parseInt(SubSeq(text, first(ij[1]) + 1, numberEnd(first(ij[1])))),
          usedTokens |-> parseInt(SubSeq(text, second(ij[2]) + 1, numberEnd(second(ij[2]))))] :
            ij \in {ij \in (0..Len(text)) \X (0..Len(text)) :
                      /\ matchesAt(text, RegexPrefix, ij[1])
                      /\ isNumber(first(ij[1]))
                      /\ ij[2] >= numberEnd(first(ij[1])) + Len(RegexTokens)
                      /\ matchesAt(text, RegexResulted, ij[2])
                      /\ isNumber(second(ij[2]))}}

\* C12: when the generator failed and the client has handled the response,
\* an error text with the context-length pattern gives the client a
\* contextError with exactly the two numbers of the text and no generic error
\* message, and an error text without the pattern gives no contextError.
ContextLengthSurfaced ==
    (pc = "responded" /\ ~isLoading /\ response.cause \in GeneratorErrors) =>
        LET claimed == ClaimedContextErrors(CharsOf[response.cause])
        IN  IF claimed # {}
            THEN contextError \in claimed /\ lastMessage.content # "sorry"
            ELSE contextError = NoContextError

\* the generator was invoked
GeneratorInvoked ==
    \E j \in 1..Len(vendorCalls) : vendorCalls[j] \in {"openai.chat", "anthropic.chat"}

\* the steps from one stage to the next, or to the response
StageSteps ==
    { <<"idle", "chunking">>, <<"chunking", "embedDocuments">>,
      <<"embedDocuments", "similaritySearch">>, <<"similaritySearch", "generate">>,
      <<"generate", "extract">> }
        \cup {<<stage, "responded">> :
                 stage \in {"idle", "chunking", "embedDocuments", "similaritySearch",
                            "generate", "extract"}}

\* a stage has a result only if the stage before it has one
StagesInOrder ==
    /\ docs # <<>> => document # NullDocument
    /\ documentEmbeddings # <<>> => docs # <<>>
    /\ queryEmbedding # <<>> => documentEmbeddings # <<>>
    /\ similarities # <<>> => queryEmbedding # <<>>
    /\ relevantDocs # <<>> => similarities # <<>>
    /\ GeneratorInvoked =>
          /\ relevantDocs # <<>>
          /\ Len(vendorCalls) = 3
          /\ vendorCalls[1] = vendorCalls[2]
          /\ vendorCalls[1] \in {"openai.embeddings", "voyage.embeddings"}
    /\ responseText # <<>> => GeneratorInvoked
    /\ (references # <<>> \/ mentionedPages # {}) => responseText # <<>>
    /\ pc \in {"generate", "extract"} => relevantDocs # <<>>
    /\ pc = "extract" => responseText # <<>>

\* C13: the stages of a request run in the order chunking, document
\* embedding, query embedding, search, generation, citation extraction: the
\* handler only steps from a stage to the next one or to its response, a
\* stage has a result only if the stage before it has one, and the generator
\* is invoked only after the search has returned.
StageOrder ==
    [][(pc' # pc => <<pc, pc'>> \in StageSteps) /\ StagesInOrder']_vars

\* a request that went through every stage
StageOrderWitness ==
    /\ Succeeded
    /\ Len(vendorCalls) = 3
    /\ vendorCalls[3] = "anthropic.chat"
    /\ references # <<>>

\* the handler's variables
serverVars ==
    <<globalDocuments, serverStorage, pc, body, document, docs, documentEmbeddings,
      searchVars, responseText, mentionedPages, references, response, vendorCalls>>

\* the request ended with an error response
Failed == pc = "responded" /\ response.status # 200

\* C14: a failure in a stage ends the request with one error response: the
\* handler has a response exactly when it has ended, after the response
\* nothing of the request changes, the step that fails produces no chunk,
\* embedding, search result, answer or reference, and the handler calls each
\* vendor client at most once per stage (what a client does inside one call
\* is the client's).
FailureIsFinal ==
    [][/\ pc = "responded" => UNCHANGED serverVars
       /\ response'.status # 0 <=> pc' = "responded"
       /\ Failed' =>
             /\ response'.status \in {400, 404, 500}
             /\ response'.error # NULL
             /\ docs' = docs
             /\ documentEmbeddings' = documentEmbeddings
             /\ relevantDocs' = relevantDocs
             /\ responseText' = responseText
             /\ references' = <<>>
       /\ Len(vendorCalls') <= Len(vendorCalls) + 1
       /\ Len(vendorCalls') <= 3
       /\ StagesInOrder']_vars

\* a request that failed in the generation, handled by the client
FailureIsFinalWitness ==
    /\ Failed
    /\ ~isLoading
    /\ response.cause = ErrRateLimit
    /\ Len(vendorCalls) = 3
    /\ references = <<>>

\* the responses the handler gives when an embedding call fails
EmbeddingFailureResponses ==
    {CaughtResponse(e) :
        e \in {ErrRateLimit, "Voyage AI API error",
               "Maximum of 128 texts can be embedded at once"}}

\* C15: a failed request reports the kind of its cause, and distinct causes
\* have distinct error responses: the response to a failed generation is none
\* of the responses to a failed embedding.
ErrorKindsDistinct ==
    (Failed /\ GeneratorInvoked) => response \notin EmbeddingFailureResponses

\* the store no longer holds the document the request read
StoreMovedOn ==
    \/ document.id \notin DOMAIN globalDocuments
    \/ globalDocuments[document.id] # document

\* C16: a request reads its document from the store once, when it starts,
\* and keeps it: uploads and deletions at any await change neither the
\* document of the request nor what it has computed, and its chunks and
\* references are those of the pages it read.
RequestIsolated ==
    [][/\ (pc = "idle" /\ pc' = "chunking") =>
             /\ body'.documentId \in DOMAIN globalDocuments
             /\ document' = globalDocuments[body'.documentId]
       /\ pc # "idle" => document' = document
       /\ globalDocuments' # globalDocuments =>
             UNCHANGED <<pc, body, document, docs, documentEmbeddings, searchVars,
                         responseText, mentionedPages, references, response>>
       /\ ChunkPageNumbers'
       /\ \A r \in 1..Len(references') :
             references'[r].fullText = trim(document'.pageContents[references'[r].pageNumber])]_vars

\* an answer with references to pages of a document that was replaced or
\* deleted while the request was in flight
RequestIsolatedWitness ==
    /\ Succeeded
    /\ StoreMovedOn
    /\ Len(document.pageContents) = 3
    /\ \E r \in 1..Len(references) : references[r].fullText = PageRevenue

PhraseHits(chunk, question, significant) ==
    LET words == splitWhitespace(question)
        phrase(c) == joinSpace(SubSeq(words, c[2], c[2] + c[1] - 1))
    IN  {c \in (3..6) \X (1..Len(words)) :
            /\ c[2] + c[1] - 1 <= Len(words)
            /\ significant => (Len(question) > 10 /\ Len(phrase(c)) > 10)
            /\ indexOf(toLowerCase(chunk), toLowerCase(phrase(c))) >= 0}

\* the places of the question's keywords that occur in chunk
KeywordHits(chunk, question) ==
    LET words == splitWhitespace(toLowerCase(question))
    IN  {i \in 1..Len(words) :
            /\ Len(words[i]) > 3
            /\ words[i] \notin StopWords
            /\ indexOf(toLowerCase(chunk), words[i]) >= 0}

\* the highlight of chunk for question by the rules in their priority
RangeByPriority(chunk, question, significant) ==
    LET phrases  == PhraseHits(chunk, question, significant)
        keywords == KeywordHits(chunk, question)
        lowered  == toLowerCase(chunk)
    IN  IF phrases # {}
        THEN LET c == CHOOSE c \in phrases :
                          \A d \in phrases : c[1] > d[1] \/ (c[1] = d[1] /\ c[2] <= d[2])
                 phrase == joinSpace(SubSeq(splitWhitespace(question), c[2], c[2] + c[1] - 1))
             IN  phraseRange(chunk, indexOf(lowered, toLowerCase(phrase)), Len(phrase))
        ELSE IF keywords # {}
        THEN LET word == splitWhitespace(toLowerCase(question))[SetMin(keywords)]
             IN  keywordRange(chunk, indexOf(lowered, word), Len(word))
        ELSE defaultRange(chunk)

\* C18, as stated: the highlight of every selected chunk is the one of the
\* first phrase of 3 to 6 words of the question that occurs in it, longest
\* first; if there is none, the one of the first keyword of the question that
\* occurs in it; if there is none, the default [0, min(300, length)].
RulePriority ==
    (Succeeded /\ CitedChunks # {}) =>
        \A r \in 1..Len(references) :
            references[r].highlightRange
                = RangeByPriority(references[r].fullText, body.message, FALSE)

\* C18, amended: the same, the phrases being those of more than 10 characters
\* of a question of more than 10 characters.
SignificantRulePriority ==
    (Succeeded /\ CitedChunks # {}) =>
        \A r \in 1..Len(references) :
            references[r].highlightRange
                = RangeByPriority(references[r].fullText, body.message, TRUE)

\* a chunk in which phrases of several lengths and keywords of the question
\* occur, highlighted by its longest phrase
SignificantRulePriorityWitness ==
    /\ Succeeded
    /\ CitedChunks # {}
    /\ body.message = MsgPhrase
    /\ \E r \in 1..Len(references) :
          /\ references[r].fullText = PageLong
          /\ Cardinality({c[1] : c \in PhraseHits(PageLong, MsgPhrase, TRUE)}) > 1
          /\ KeywordHits(PageLong, MsgPhrase) # {}
          /\ references[r].highlightRange # keywordRange(PageLong, FillBefore + 1, 5)

\* the text the phrase rule or the keyword rule matched in chunk, lower-cased;
\* the empty text when neither rule matches
MatchedText(chunk, question) ==
    LET phrases  == PhraseHits(chunk, question, TRUE)
        keywords == KeywordHits(chunk, question)
    IN  IF phrases # {}
        THEN LET c == CHOOSE c \in phrases :
                          \A d \in phrases : c[1] > d[1] \/ (c[1] = d[1] /\ c[2] <= d[2])
             IN  toLowerCase(joinSpace(SubSeq(splitWhitespace(question),
                                              c[2], c[2] + c[1] - 1)))
        ELSE IF keywords # {}
        THEN splitWhitespace(toLowerCase(question))[SetMin(keywords)]
        ELSE <<>>

\* the offsets of chunk at which needle stands, letter case ignored
OffsetsOf(chunk, needle) ==
    {i \in 0..(Len(chunk) - Len(needle)) :
        toLowerCase(SubSeq(chunk, i + 1, i + Len(needle))) = needle}

\* C19: whenever the phrase rule or the keyword rule matches in a selected
\* chunk, at offset i with length L, the highlightRange of its reference covers
\* the match: start <= i and i + L <= end (the offsets are stored doubled).
MatchCovered ==
    (Succeeded /\ CitedChunks # {}) =>
        \A r \in 1..Len(references) :
            LET chunk   == references[r].fullText
                needle  == MatchedText(chunk, body.message)
                offsets == OffsetsOf(chunk, needle)
                range   == references[r].highlightRange
            IN  needle # <<>> =>
                    /\ offsets # {}
                    /\ range.start <= 2 * SetMin(offsets)
                    /\ 2 * (SetMin(offsets) + Len(needle)) <= range.end

\* C20: of every reference the handler returns, fullText is the whole content
\* of a retrieved chunk of its page, and text is an excerpt of at most 150
\* characters which is the same whatever the question, hence whichever rule
\* gave the highlightRange.
ExcerptShortAndFixed ==
    Succeeded =>
        \A r \in 1..Len(references) :
            /\ \E j \in 1..Len(relevantDocs) :
                  /\ relevantDocs[j].pageContent = references[r].fullText
                  /\ relevantDocs[j].metadata.pageNumber = references[r].pageNumber
                  /\ CitedChunks # {} =>
                        \A message \in Questions :
                            referenceOf(relevantDocs[j], message).text = references[r].text
            /\ Len(references[r].text) <= 150

\* C21: the start and the end of the highlightRange of every reference are
\* whole numbers, whatever the length of the matched phrase (the offsets are
\* stored doubled, so a whole offset is an even value).
HighlightOffsetsWhole ==
    \A r \in 1..Len(references) :
        /\ references[r].highlightRange.start % 2 = 0
        /\ references[r].highlightRange.end % 2 = 0

\* C22: no request the browser sends to the chat route of this application
\* carries an API key: the body the handler has received holds no chat key and
\* no Voyage key.
RequestCarriesNoKey ==
    pc # "idle" =>
        /\ body.apiKeyConfig.apiKey = ""
        /\ body.apiKeyConfig.voyageApiKey = ""

\* the texts that the chunks give back when each is laid over the end of the
\* text before it, by an overlap of at most chunkOverlap characters
RECURSIVE Rebuilt(_, _)
Rebuilt(chunks, n) ==
    IF n = 0 THEN {<<>>}
    ELSE LET next == chunks[n]
         IN  {before \o SubSeq(next, o + 1, Len(next)) :
                 <<before, o>> \in
                     {x \in Rebuilt(chunks, n - 1) \X (0..Min(chunkOverlap, Len(next))) :
                         /\ x[2] <= Len(x[1])
                         /\ SubSeq(x[1], Len(x[1]) - x[2] + 1, Len(x[1]))
                                = SubSeq(next, 1, x[2])}}

\* the contents of the chunks of page number p, in order
ChunksOfPage(p) ==
    LET own == SelectSeqIdx(docs, {j \in 1..Len(docs) : docs[j].metadata.pageNumber = p}, 1)
    IN  Array([j \in 1..Len(own) |-> own[j].pageContent])

\* every chunk is a contiguous substring of the text of its page
ChunksWithinPages ==
    \A j \in 1..Len(docs) :
        LET page == document.pageContents[docs[j].metadata.pageNumber]
        IN  \E i \in 0..Len(page) : OccursAt(page, docs[j].pageContent, i)

\* C23: once the handler has chunked the document, every chunk is a
\* contiguous substring of the text of its page, and the chunks of every
\* non-empty page, joined in order with the overlaps removed, give the page
\* text back.
ChunkCoverage ==
    (pc \notin {"idle", "chunking"} /\ document # NullDocument) =>
        /\ ChunksWithinPages
        /\ \A p \in 1..Len(document.pageContents) :
              Len(document.pageContents[p]) > 0 =>
                  LET chunks == ChunksOfPage(p)
                  IN  document.pageContents[p] \in Rebuilt(chunks, Len(chunks))

(***************************************************************************)
(* The document store under uploads and deletions (the upload route)       *)
(***************************************************************************)

StoreIds == {"a", "b", "c"}
StoreNames == {"x.pdf", "y.pdf", "z.pdf"}

\* the page an upload carries, one per id, so that an entry tells which
\* upload wrote it
PagesOfUpload(id) ==
    IF id = "a" THEN <<PageAnnual>>
    ELSE IF id = "b" THEN <<PageRevenue>>
    ELSE <<PageCosts>>

\* the documents handed to storeDocument: with and without id, with and
\* without pages
StoreInputs ==
    {ProcessedDocument(id, name, pages) :
        <<id, name, pages>> \in
            {x \in (StoreIds \cup {""}) \X StoreNames \X {<<>>, <<PageAnnual>>, <<PageRevenue>>, <<PageCosts>>} :
                x[3] \in {<<>>, PagesOfUpload(x[1])}}}

\* formData.get('processedData'): absent, not JSON, or JSON with pageContents
UploadData ==
    {[kind |-> "missing", pageContents |-> <<>>],
     [kind |-> "malformed", pageContents |-> <<>>]}
        \cup {[kind |-> "parsed", pageContents |-> p] :
                 p \in {<<>>, <<PageAnnual>>, <<PageRevenue>>, <<PageCosts>>}}

UploadBadRequest == [status |-> 400, documentId |-> "", isUpdate |-> FALSE]
UploadFailed == [status |-> 500, documentId |-> "", isUpdate |-> FALSE]

\* POST of the upload route, for the file name `fileName` ("" when the form
\* has no file), the form field processedData and the id generateId() gives
Upload(fileName, processedData, newId) ==
    /\ IF fileName = "" \/ processedData.kind = "missing"
       THEN /\ uploadResponse' = UploadBadRequest
            /\ globalDocuments' = globalDocuments
       ELSE IF processedData.kind = "malformed"
       THEN /\ uploadResponse' = UploadFailed
            /\ globalDocuments' = globalDocuments
       ELSE LET existing   == {k \in DOMAIN globalDocuments :
                                  globalDocuments[k].name = fileName}
                isUpdate   == existing # {}
                documentId == IF isUpdate
                              THEN globalDocuments[CHOOSE k \in existing : TRUE].id
                              ELSE newId
                doc        == ProcessedDocument(documentId, fileName,
                                                processedData.pageContents)
            IN  /\ globalDocuments' = storeDocument(globalDocuments, doc)
                /\ uploadResponse' = [status |-> 200, documentId |-> documentId,
                                      isUpdate |-> isUpdate]
    /\ UNCHANGED <<chatVars, layoutVars, previewVars>>

\* the store is empty
InitStore ==
    /\ globalDocuments = [id \in {} |-> NullDocument]
    /\ serverStorage \in {"undefined", "empty"}
    /\ pc = "idle"
    /\ body = [documentId |-> "", message |-> <<>>, apiKeyConfig |-> NoConfig]
    /\ document = NullDocument
    /\ docs = <<>>
    /\ documentEmbeddings = <<>>
    /\ queryEmbedding = <<>>
    /\ searchK = SearchK
    /\ similarities = <<>>
    /\ relevantDocs = <<>>
    /\ responseText = <<>>
    /\ mentionedPages = {}
    /\ references = <<>>
    /\ response = [status |-> 0, error |-> NULL, cause |-> NULL]
    /\ vendorCalls = <<>>
    /\ previousRun = NoRun
    /\ isLoading = TRUE
    /\ contextError = NoContextError
    /\ lastMessage = UserMessage
    /\ messages = <<UserMessage>>
    /\ inFlight = 1
    /\ InitFront

NextStore ==
    \/ \E doc \in StoreInputs : StoreDocument(doc)
    \/ \E id \in StoreIds \cup {""} : RemoveDocument(id)
    \/ \E fileName \in StoreNames \cup {""}, processedData \in UploadData, newId \in StoreIds :
          Upload(fileName, processedData, newId)

SpecStore == InitStore /\ [][NextStore]_vars

\* C24: after any storeDocument and removeDocument calls the store holds at
\* most one document of a name and every entry is kept under its own id; and no
\* call adds an entry of a name the store already holds.
StoreOnePerName ==
    [][/\ \A k \in DOMAIN globalDocuments' : globalDocuments'[k].id = k
       /\ \A j, k \in DOMAIN globalDocuments' :
             globalDocuments'[j].name = globalDocuments'[k].name => j = k
       /\ \A k \in DOMAIN globalDocuments' \ DOMAIN globalDocuments :
             \A j \in DOMAIN globalDocuments :
                 globalDocuments[j].name # globalDocuments'[k].name]_vars

\* the store keeps three documents, and the last upload was one of a stored
\* name: it has taken the place of the stored document, under that one's id
StoreOnePerNameWitness ==
    /\ Cardinality(DOMAIN globalDocuments) = 3
    /\ uploadResponse.status = 200
    /\ uploadResponse.isUpdate
    /\ uploadResponse.documentId \in DOMAIN globalDocuments

\* C25: whenever the upload route answers 200 with a documentId, getDocument
\* of that id then returns the uploaded document: its name and its pages.
UploadThenGet ==
    [][\A fileName \in StoreNames \cup {""}, processedData \in UploadData, newId \in StoreIds :
          (Upload(fileName, processedData, newId) /\ uploadResponse'.status = 200) =>
              LET got == getDocument(uploadResponse.documentId)'
              IN  /\ got # NullDocument
                  /\ got.name = fileName
                  /\ got.pageContents = processedData.pageContents]_vars

DocNote == ProcessedDocument("d5", "note.pdf", <<PageAnnual>>)

\* the ids the document list or an upload may hand to the layout: two stored
\* documents and one the store does not hold
LayoutIds == {"d1", "d5", "d9"}

LayoutQuestions == {MsgScenarioA, MsgShort}

\* the references the chat route returns for the questions on a document
ReferencesOfDocument(doc) ==
    IF doc = NullDocument THEN {}
    ELSE LET chunks == splitPages(doc.pageContents, 0)
         IN  {referenceOf(chunks[j], message) :
                 <<j, message>> \in (1..Len(chunks)) \X LayoutQuestions}

\* AppLayout renders <DocumentPreview> and <ChatInterface>
PreviewMounted == layoutDocument # NullDocument /\ layoutError = NULL

\* DocumentPreview after a render of AppLayout: unmounted, it loses its
\* state; mounted anew, it starts on page 0 and runs the effect of
\* activeReference; kept, it runs the effect when activeReference changed
PreviewFollows ==
    IF ~PreviewMounted'
    THEN currentPage' = 0 /\ highlightRange' = NoRange
    ELSE IF ~PreviewMounted \/ activeReference' # activeReference
    THEN IF activeReference' # NoReference
         THEN /\ currentPage' = activeReference'.pageNumber - 1
              /\ highlightRange' = activeReference'.highlightRange
         ELSE /\ currentPage' = (IF PreviewMounted THEN currentPage ELSE 0)
              /\ highlightRange' = NoRange
    ELSE UNCHANGED previewVars

\* handleDocumentProcessed(docId), up to its await
SelectDocument(docId) ==
    /\ layoutDocumentId' = docId
    /\ layoutError' = NULL
    /\ fetches' = fetches \cup {docId}
    /\ UNCHANGED <<layoutDocument, activeReference>>
    /\ PreviewFollows
    /\ UNCHANGED <<globalDocuments, chatVars, uploadResponse>>

\* handleDocumentProcessed(docId), from the answer of its fetch on
FetchResolved(docId, arrived) ==
    /\ docId \in fetches
    /\ fetches' = fetches \ {docId}
    /\ LET docData == getDocument(docId)
       IN  IF ~arrived
           THEN layoutError' = "Failed to load document" /\ layoutDocument' = layoutDocument
           ELSE IF docData = NullDocument
           THEN /\ layoutError' = "Error loading document: Document not found"
                /\ layoutDocument' = layoutDocument
           ELSE layoutDocument' = docData /\ layoutError' = layoutError
    /\ UNCHANGED <<layoutDocumentId, activeReference>>
    /\ PreviewFollows
    /\ UNCHANGED <<globalDocuments, chatVars, uploadResponse>>

\* handleClearDocument, by a button that shows while a document is loaded
ClearDocument ==
    /\ layoutDocument # NullDocument
    /\ layoutDocumentId' = NULL
    /\ layoutDocument' = NullDocument
    /\ layoutError' = NULL
    /\ UNCHANGED <<activeReference, fetches>>
    /\ PreviewFollows
    /\ UNCHANGED <<globalDocuments, chatVars, uploadResponse>>

\* handleReferenceClick(reference), for a reference of an answer on documentId
ReferenceClick(reference) ==
    /\ PreviewMounted
    /\ reference \in ReferencesOfDocument(getDocument(layoutDocumentId))
    /\ activeReference' = reference
    /\ UNCHANGED <<layoutDocumentId, layoutDocument, layoutError, fetches>>
    /\ PreviewFollows
    /\ UNCHANGED <<globalDocuments, chatVars, uploadResponse>>

\* handlePreviousPage
PreviousPage ==
    /\ PreviewMounted
    /\ currentPage' = Max(0, currentPage - 1)
    /\ highlightRange' = NoRange
    /\ UNCHANGED <<globalDocuments, chatVars, uploadResponse, layoutVars>>

\* handleNextPage
NextPage ==
    /\ PreviewMounted
    /\ currentPage' = Min(layoutDocument.pageCount - 1, currentPage + 1)
    /\ highlightRange' = NoRange
    /\ UNCHANGED <<globalDocuments, chatVars, uploadResponse, layoutVars>>

\* handlePageSelect, for an option of the select
PageSelect(pageIndex) ==
    /\ PreviewMounted
    /\ pageIndex \in 0..(layoutDocument.pageCount - 1)
    /\ currentPage' = pageIndex
    /\ highlightRange' = NoRange
    /\ UNCHANGED <<globalDocuments, chatVars, uploadResponse, layoutVars>>

\* renderPageContent: the page text before the highlight, the highlighted
\* text and the text after it; it throws when currentPage has no content
renderPageContent ==
    IF currentPage + 1 \notin 1..Len(layoutDocument.pageContents)
    THEN [throws |-> TRUE, before |-> <<>>, highlighted |-> <<>>, after |-> <<>>]
    ELSE LET pageContent == layoutDocument.pageContents[currentPage + 1]
         IN  IF highlightRange # NoRange /\ highlightRange.start < 2 * Len(pageContent)
             THEN [throws |-> FALSE,
                   before |-> substring(pageContent, 0, highlightRange.start \div 2),
                   highlighted |-> substring(pageContent, highlightRange.start \div 2,
                                             Min(highlightRange.end, 2 * Len(pageContent)) \div 2),
                   after |-> IF highlightRange.end < 2 * Len(pageContent)
                             THEN substring(pageContent, highlightRange.end \div 2,
                                            Len(pageContent))
                             ELSE <<>>]
             ELSE [throws |-> FALSE, before |-> pageContent, highlighted |-> <<>>,
                   after |-> <<>>]

\* the store holds report.pdf and note.pdf, nothing is selected
InitLayout ==
    /\ globalDocuments = [id \in {DocReport.id, DocNote.id} |->
                             IF id = DocReport.id THEN DocReport ELSE DocNote]
    /\ serverStorage = "empty"
    /\ pc = "idle"
    /\ body = [documentId |-> "", message |-> <<>>, apiKeyConfig |-> NoConfig]
    /\ document = NullDocument
    /\ docs = <<>>
    /\ documentEmbeddings = <<>>
    /\ queryEmbedding = <<>>
    /\ searchK = SearchK
    /\ similarities = <<>>
    /\ relevantDocs = <<>>
    /\ responseText = <<>>
    /\ mentionedPages = {}
    /\ references = <<>>
    /\ response = [status |-> 0, error |-> NULL, cause |-> NULL]
    /\ vendorCalls = <<>>
    /\ previousRun = NoRun
    /\ isLoading = TRUE
    /\ contextError = NoContextError
    /\ lastMessage = UserMessage
    /\ messages = <<UserMessage>>
    /\ inFlight = 1
    /\ InitFront

NextLayout ==
    \/ \E docId \in LayoutIds : SelectDocument(docId)
    \/ \E docId \in LayoutIds, arrived \in BOOLEAN : FetchResolved(docId, arrived)
    \/ ClearDocument
    \/ \E reference \in UNION {ReferencesOfDocument(d) : d \in {DocReport, DocNote}} :
          ReferenceClick(reference)
    \/ PreviousPage
    \/ NextPage
    \/ \E pageIndex \in 0..2 : PageSelect(pageIndex)

SpecLayout == InitLayout /\ [][NextLayout]_vars

\* C27: whenever AppLayout holds a document, it holds a documentId, and that
\* is the id of the document.
DocumentMatchesId ==
    layoutDocument # NullDocument =>
        layoutDocumentId # NULL /\ layoutDocumentId = layoutDocument.id

\* C28: while the preview is shown, currentPage lies in [0, pageCount - 1],
\* so that the page it renders has content.
CurrentPageInRange ==
    PreviewMounted =>
        /\ 0 <= currentPage
        /\ currentPage <= layoutDocument.pageCount - 1
        /\ ~renderPageContent.throws

\* C29: when a reference is active and the preview shows its highlightRange,
\* the highlighted text is fullText[start..end] of that reference.
HighlightShowsReference ==
    (/\ PreviewMounted
     /\ activeReference # NoReference
     /\ highlightRange # NoRange
     /\ highlightRange = activeReference.highlightRange) =>
        /\ ~renderPageContent.throws
        /\ renderPageContent.highlighted
              = substring(activeReference.fullText, highlightRange.start \div 2,
                          highlightRange.end \div 2)

(***************************************************************************)
(* ChatInterface: submits, the answers of the chat route, the modal        *)
(***************************************************************************)

MaxMessages == 4

\* the responses the chat route returns
ChatResponses ==
    {OkResponse, BadRequestResponse, NotFoundResponse, NoContentResponse,
     ChunkingFailedResponse, MissingVoyageKeyResponse}
        \cup {CaughtResponse(e) : e \in GeneratorErrors}

\* the texts of the textarea at a submit: empty, blank, a question
Inputs == {<<>>, <<" ">>, MsgShort}

NoMessage == [role |-> "none", content |-> "", error |-> ""]

\* a submit that does not look at isLoading, the variant the one-request
\* property has to tell from Submit
SubmitWhileLoading(input) ==
    /\ Len(messages) < MaxMessages
    /\ IF Len(trim(input)) = 0
       THEN UNCHANGED <<clientVars, pc, body, response>>
       ELSE /\ contextError' = NoContextError
            /\ lastMessage' = UserMessage
            /\ messages' = Append(messages, UserMessage)
            /\ isLoading' = TRUE
            /\ inFlight' = inFlight + 1
            /\ pc' = "idle"
            /\ body' = [documentId |-> DocReport.id, message |-> input,
                        apiKeyConfig |-> [provider |-> "openai", apiKey |-> "sk-openai",
                                          voyageApiKey |-> ""]]
            /\ response' = [status |-> 0, error |-> NULL, cause |-> NULL]
    /\ UNCHANGED <<frontVars, previousRun, globalDocuments, serverStorage, document, docs,
                   documentEmbeddings, searchVars, responseText, mentionedPages,
                   references, vendorCalls>>

\* ChatInterface.handleSubmit, up to the await of fetch('/api/chat'): it
\* returns at once on a blank input or while a request is loading
Submit(input) ==
    /\ Len(messages) < MaxMessages
    /\ IF Len(trim(input)) = 0 \/ isLoading
       THEN UNCHANGED <<clientVars, pc, body, response>>
       ELSE /\ contextError' = NoContextError
            /\ lastMessage' = UserMessage
            /\ messages' = Append(messages, UserMessage)
            /\ isLoading' = TRUE
            /\ inFlight' = inFlight + 1
            /\ pc' = "idle"
            /\ body' = [documentId |-> DocReport.id, message |-> input,
                        apiKeyConfig |-> [provider |-> "openai", apiKey |-> "sk-openai",
                                          voyageApiKey |-> ""]]
            /\ response' = [status |-> 0, error |-> NULL, cause |-> NULL]
    /\ UNCHANGED <<frontVars, previousRun, globalDocuments, serverStorage, document, docs,
                   documentEmbeddings, searchVars, responseText, mentionedPages,
                   references, vendorCalls>>

\* POST of the chat route as a whole: the request in flight is answered by r
ServerAnswers(r) ==
    /\ inFlight > 0
    /\ pc = "idle"
    /\ pc' = "responded"
    /\ response' = r
    /\ UNCHANGED <<frontVars, clientVars, previousRun, globalDocuments, serverStorage, body,
                   document, docs, documentEmbeddings, searchVars, responseText,
                   mentionedPages, references, vendorCalls>>

\* ChatInterface.handleSubmit, when fetch rejects: the catch and the finally
FetchRejected ==
    /\ inFlight > 0
    /\ pc = "idle"
    /\ isLoading
    /\ lastMessage' = SorryMessage("Failed to fetch")
    /\ messages' = Append(messages, lastMessage')
    /\ isLoading' = FALSE
    /\ inFlight' = inFlight - 1
    /\ UNCHANGED <<frontVars, contextError, previousRun, globalDocuments, serverStorage, pc,
                   body, document, docs, documentEmbeddings, searchVars, responseText,
                   mentionedPages, references, response, vendorCalls>>

\* onClose of ContextLengthErrorModal
CloseModal ==
    /\ contextError # NoContextError
    /\ contextError' = NoContextError
    /\ UNCHANGED <<frontVars, isLoading, lastMessage, messages, inFlight, previousRun,
                   globalDocuments, serverStorage, pc, body, document, docs,
                   documentEmbeddings, searchVars, responseText, mentionedPages,
                   references, response, vendorCalls>>

\* the panel is mounted, nothing was asked yet
InitChat ==
    /\ globalDocuments = [id \in {DocReport.id} |-> DocReport]
    /\ serverStorage = "empty"
    /\ pc = "idle"
    /\ body = [documentId |-> "", message |-> <<>>, apiKeyConfig |-> NoConfig]
    /\ document = NullDocument
    /\ docs = <<>>
    /\ documentEmbeddings = <<>>
    /\ queryEmbedding = <<>>
    /\ searchK = SearchK
    /\ similarities = <<>>
    /\ relevantDocs = <<>>
    /\ responseText = <<>>
    /\ mentionedPages = {}
    /\ references = <<>>
    /\ response = [status |-> 0, error |-> NULL, cause |-> NULL]
    /\ vendorCalls = <<>>
    /\ previousRun = NoRun
    /\ isLoading = FALSE
    /\ contextError = NoContextError
    /\ lastMessage = NoMessage
    /\ messages = <<>>
    /\ inFlight = 0
    /\ InitFront

NextChat ==
    \/ \E input \in Inputs : Submit(input)
    \/ \E r \in ChatResponses : ServerAnswers(r)
    \/ FetchRejected
    \/ HandleResponse
    \/ CloseModal

\* the fetch settles, and the code after its await runs
FetchSettles ==
    \/ \E r \in ChatResponses : ServerAnswers(r)
    \/ FetchRejected

\* the continuation of handleSubmit after its awaits is a task the event loop
\* runs: weak fairness of HandleResponse, written with its enabling condition
\* (the handler has no other guard and always clears isLoading)
ResponseHandled ==
    []<>(~(pc = "responded" /\ isLoading)) \/ []<><<HandleResponse>>_vars

SpecChat ==
    InitChat /\ [][NextChat]_vars /\ WF_vars(FetchSettles) /\ ResponseHandled

\* C30: every accepted submit ends with isLoading false; at its end either
\* one assistant message has been appended to the user message, or the
\* context-length modal is open and no message was appended; nothing else is
\* appended while it loads, and a chat request is only sent while none is in
\* flight.
SubmitCompletesOnce ==
    /\ [](isLoading => <>(~isLoading))
    /\ [][/\ (isLoading /\ ~isLoading') =>
                \/ /\ messages' = Append(messages, lastMessage')
                   /\ lastMessage'.role = "assistant"
                   /\ messages[Len(messages)].role = "user"
                   /\ contextError' = NoContextError
                \/ /\ messages' = messages
                   /\ contextError' # NoContextError
          /\ (isLoading /\ isLoading') => messages' = messages
          /\ inFlight' > inFlight => (~isLoading /\ inFlight = 0 /\ inFlight' = 1)]_vars

\* two submits have ended, the first by an assistant message and the second
\* by the modal
SubmitCompletesOnceWitness ==
    /\ ~isLoading
    /\ inFlight = 0
    /\ Len(messages) = 3
    /\ messages[2].role = "assistant"
    /\ messages[3].role = "user"
    /\ contextError # NoContextError

====
